---------------------------- MODULE Spec2Model ----------------------------
(***************************************************************************)
(* A model of the enthalpy converter of PISM's IceEnthalpyModel            *)
(* (src/base/iceEnthalpyModel.cc): get_H_s, getAbsTemp, getWaterFraction,  *)
(* getEnth and getEnth_pa, and of a caller that applies them (Spec); of    *)
(* IceEnthalpyModel itself, run by several processes that exchange the     *)
(* ghost cells of Enth3 (EnthSpec); and of the components around it.       *)
(*                                                                         *)
(* PetscScalar values are modelled as exact rationals <<n, d>> in lowest   *)
(* terms with d > 0, so that the branches of the conversions (<, <=) and   *)
(* the algebra of their formulas are decided exactly.                      *)
(***************************************************************************)
EXTENDS Integers, Sequences, FiniteSets, TLC

VARIABLES config,  \* the NCConfigVariable handed to every conversion
          cur,     \* the conversion call made last, with its outcome
          prev,    \* history: the call made before it, when cur continues it
          file,    \* the input file handed to IceEnthalpyModel::initFromFile
          cold,    \* IceEnthalpyModel::doColdIceTemperatureStep
          em,      \* the IceEnthalpyModel object of every process
          chan,    \* ghost values of Enth3 in flight between the processes
          reg,     \* the IceRegionalModel object
          ice,     \* the PolyThermalGlenPBLDIce object and its last call of flow
          fevor,   \* the PISMFEvoR object and its last call
          cdi      \* the CDI file object, the library behind it, its last call

vars == <<config, cur, prev, file, cold, em, chan, reg, ice, fevor, cdi>>

convVars == <<cur, prev>>

enthVars == <<file, cold, em, chan>>

\* the components a specification does not run stay as constructed
EnthIdle == file = <<>> /\ cold = TRUE /\ em = <<>> /\ chan = <<>>

ConvIdle == cur = <<>> /\ prev = <<>>

RegIdle == reg = <<>>

FlowIdle == ice = <<>>

FevorIdle == fevor = <<>>

CdiIdle == cdi = <<>>

----------------------------------------------------------------------------
(* PetscScalar arithmetic on rationals *)

Abs(x) == IF x < 0 THEN -x ELSE x

RECURSIVE GCD(_, _)
GCD(a, b) == IF b = 0 THEN a ELSE GCD(b, a % b)

Rat(n, d) ==
  LET s == IF d < 0 THEN -1 ELSE 1
      g == GCD(Abs(n), Abs(d))
  IN  <<(s * n) \div g, (s * d) \div g>>

Whole(k) == <<k, 1>>

Zero == <<0, 1>>

One == <<1, 1>>

Neg(a) == <<-a[1], a[2]>>

\* the whole part (floor) and the fractional part of a rational
Floor(a) == a[1] \div a[2]

Frac(a) == a[1] % a[2]

\* The sum is formed from the whole parts and the fractional parts, so that no
\* intermediate number is larger than the result needs.
Add(a, b) ==
  LET g == GCD(a[2], b[2])
      f == Rat(Frac(a) * (b[2] \div g) + Frac(b) * (a[2] \div g),
               (a[2] \div g) * b[2])
  IN  <<(Floor(a) + Floor(b)) * f[2] + f[1], f[2]>>

Sub(a, b) == Add(a, Neg(b))

Mul(a, b) ==
  LET g1 == GCD(Abs(a[1]), b[2])
      g2 == GCD(Abs(b[1]), a[2])
  IN  Rat((a[1] \div g1) * (b[1] \div g2), (a[2] \div g2) * (b[2] \div g1))

Div(a, b) == Mul(a, Rat(b[2], b[1]))

\* a < b, decided on the whole parts and then, as in Euclid's algorithm,
\* on the reciprocals of the fractional parts: nothing is multiplied.
RECURSIVE Less(_, _)
Less(a, b) ==
  IF Floor(a) # Floor(b) THEN Floor(a) < Floor(b)
  ELSE IF Frac(a) = 0 THEN Frac(b) > 0
  ELSE IF Frac(b) = 0 THEN FALSE
  ELSE Less(<<b[2], Frac(b)>>, <<a[2], Frac(a)>>)

Leq(a, b) == ~Less(b, a)

----------------------------------------------------------------------------
(* The configuration: the five constants the conversions read with         *)
(* config.get().                                                           *)

\* T_0 = 273.15 K, beta = 7.9e-8 K/Pa, c_w = 4170, c_i = 2009, L = 3.34e5
PismConfig ==
  [water_melting_temperature    |-> <<5463, 20>>,
   beta_CC                      |-> <<79, 1000000000>>,
   water_specific_heat_capacity |-> <<4170, 1>>,
   ice_specific_heat_capacity   |-> <<2009, 1>>,
   water_latent_heat_fusion     |-> <<334000, 1>>]

\* a configuration with small constants: T_0 = 10, beta = 1e-7, c_w = 4,
\* c_i = 2, L = 8
SmallConfig ==
  [water_melting_temperature    |-> <<10, 1>>,
   beta_CC                      |-> <<1, 10000000>>,
   water_specific_heat_capacity |-> <<4, 1>>,
   ice_specific_heat_capacity   |-> <<2, 1>>,
   water_latent_heat_fusion     |-> <<8, 1>>]

Configs == {PismConfig, SmallConfig}

----------------------------------------------------------------------------
(* The conversions *)

\* PetscEnd(): the process ends; the caller gets no value.
PetscEnd(where) == [outcome |-> "end", err |-> where, val |-> Zero]

Return(v) == [outcome |-> "ret", err |-> "", val |-> v]

get_H_s(cfg, p) ==
  LET T_0  == cfg.water_melting_temperature
      beta == cfg.beta_CC
      c_w  == cfg.water_specific_heat_capacity
      L    == cfg.water_latent_heat_fusion
      T_m  == Sub(T_0, Mul(beta, p))
      H_l  == Mul(c_w, T_m)
      H_s  == Add(Neg(L), H_l)
  IN  [T_m |-> T_m, H_l |-> H_l, H_s |-> H_s]

\* getAbsTemp with the pressure dependence of the melting point forgotten:
\* T_0 where the code has T_m
getAbsTemp_refT0(cfg, H, p) ==
  LET r   == get_H_s(cfg, p)
      T_0 == cfg.water_melting_temperature
  IN  IF Less(H, r.H_s)
        THEN LET c_i == cfg.ice_specific_heat_capacity
             IN  Return(Add(Div(Sub(H, r.H_s), c_i), T_0))
        ELSE IF Less(H, r.H_l)
          THEN Return(T_0)
          ELSE PetscEnd("getAbsTemp: liquid water")

\* getAbsTemp dividing by c_w, the heat capacity of water, where the code
\* divides by c_i
getAbsTemp_byWaterHeat(cfg, H, p) ==
  LET r == get_H_s(cfg, p)
  IN  IF Less(H, r.H_s)
        THEN LET c_w == cfg.water_specific_heat_capacity
             IN  Return(Add(Div(Sub(H, r.H_s), c_w), r.T_m))
        ELSE IF Less(H, r.H_l)
          THEN Return(r.T_m)
          ELSE PetscEnd("getAbsTemp: liquid water")

\* getAbsTemp with H <= H_l where the code has H < H_l
getAbsTemp_inclusive(cfg, H, p) ==
  LET r == get_H_s(cfg, p)
  IN  IF Less(H, r.H_s)
        THEN LET c_i == cfg.ice_specific_heat_capacity
             IN  Return(Add(Div(Sub(H, r.H_s), c_i), r.T_m))
        ELSE IF Leq(H, r.H_l)
          THEN Return(r.T_m)
          ELSE PetscEnd("getAbsTemp: liquid water")

getAbsTemp(cfg, H, p) ==
  LET r == get_H_s(cfg, p)
  IN  IF Less(H, r.H_s)
        THEN LET c_i == cfg.ice_specific_heat_capacity
             IN  Return(Add(Div(Sub(H, r.H_s), c_i), r.T_m))
        ELSE IF Less(H, r.H_l)
          THEN Return(r.T_m)
          ELSE PetscEnd("getAbsTemp: liquid water")

\* getWaterFraction dividing by c_i, as getAbsTemp does, where the code
\* divides by L
getWaterFraction_byHeatCapacity(cfg, H, p) ==
  LET r == get_H_s(cfg, p)
  IN  IF Leq(H, r.H_s)
        THEN Return(Zero)
        ELSE IF Less(H, r.H_l)
          THEN LET c_i == cfg.ice_specific_heat_capacity
               IN  Return(Div(Sub(H, r.H_s), c_i))
          ELSE PetscEnd("getWaterFraction: liquid water")

\* getWaterFraction with H <= H_l where the code has H < H_l
getWaterFraction_inclusive(cfg, H, p) ==
  LET r == get_H_s(cfg, p)
  IN  IF Leq(H, r.H_s)
        THEN Return(Zero)
        ELSE IF Leq(H, r.H_l)
          THEN LET L == cfg.water_latent_heat_fusion
               IN  Return(Div(Sub(H, r.H_s), L))
          ELSE PetscEnd("getWaterFraction: liquid water")

getWaterFraction(cfg, H, p) ==
  LET r == get_H_s(cfg, p)
  IN  IF Leq(H, r.H_s)
        THEN Return(Zero)
        ELSE IF Less(H, r.H_l)
          THEN LET L == cfg.water_latent_heat_fusion
               IN  Return(Div(Sub(H, r.H_s), L))
          ELSE PetscEnd("getWaterFraction: liquid water")

\* the tolerance 0.000001 of the temperature checks
Tol == <<1, 1000000>>

\* getEnth with the closed range [0,1] taken as open: omega <= 0 and
\* 1 <= omega are refused
getEnth_openRange(cfg, T, omega, p) ==
  IF Leq(omega, Zero) \/ Leq(One, omega)
    THEN PetscEnd("getEnth: omega not in [0,1]")
    ELSE LET T_0 == cfg.water_melting_temperature
         IN  IF Less(Add(T_0, Tol), T)
               THEN PetscEnd("getEnth: T exceeds T_0")
               ELSE LET r   == get_H_s(cfg, p)
                        c_w == cfg.water_specific_heat_capacity
                        c_i == cfg.ice_specific_heat_capacity
                        c   == Add(Mul(Sub(One, omega), c_i), Mul(omega, c_w))
                    IN  Return(Add(r.H_s, Mul(c, Sub(T, T_0))))

\* getEnth counting from the enthalpy of liquid water: H_l where the code
\* has H_s
getEnth_liquidReference(cfg, T, omega, p) ==
  IF Less(omega, Zero) \/ Less(One, omega)
    THEN PetscEnd("getEnth: omega not in [0,1]")
    ELSE LET T_0 == cfg.water_melting_temperature
         IN  IF Less(Add(T_0, Tol), T)
               THEN PetscEnd("getEnth: T exceeds T_0")
               ELSE LET r   == get_H_s(cfg, p)
                        c_w == cfg.water_specific_heat_capacity
                        c_i == cfg.ice_specific_heat_capacity
                        c   == Add(Mul(Sub(One, omega), c_i), Mul(omega, c_w))
                    IN  Return(Add(r.H_l, Mul(c, Sub(T, T_0))))

getEnth(cfg, T, omega, p) ==
  IF Less(omega, Zero) \/ Less(One, omega)
    THEN PetscEnd("getEnth: omega not in [0,1]")
    ELSE LET T_0 == cfg.water_melting_temperature
         IN  IF Less(Add(T_0, Tol), T)
               THEN PetscEnd("getEnth: T exceeds T_0")
               ELSE LET r   == get_H_s(cfg, p)
                        c_w == cfg.water_specific_heat_capacity
                        c_i == cfg.ice_specific_heat_capacity
                        c   == Add(Mul(Sub(One, omega), c_i), Mul(omega, c_w))
                    IN  Return(Add(r.H_s, Mul(c, Sub(T, T_0))))

\* getEnth_pa without the tolerance: T_pa > T_m is refused
getEnth_pa_noTol(cfg, T_pa, omega, p) ==
  IF Less(omega, Zero) \/ Less(One, omega)
    THEN PetscEnd("getEnth_pa: omega not in [0,1]")
    ELSE LET r == get_H_s(cfg, p)
         IN  IF Less(r.T_m, T_pa)
               THEN PetscEnd("getEnth_pa: T_pa exceeds T_m")
               ELSE LET c_w == cfg.water_specific_heat_capacity
                        c_i == cfg.ice_specific_heat_capacity
                        c   == Add(Mul(Sub(One, omega), c_i), Mul(omega, c_w))
                    IN  Return(Add(r.H_s, Mul(c, Sub(T_pa, r.T_m))))

\* getEnth_pa with the reference temperature of getEnth: T_pa - T_0 where the
\* code has T_pa - T_m
getEnth_pa_refT0(cfg, T_pa, omega, p) ==
  IF Less(omega, Zero) \/ Less(One, omega)
    THEN PetscEnd("getEnth_pa: omega not in [0,1]")
    ELSE LET r == get_H_s(cfg, p)
         IN  IF Less(Add(r.T_m, Tol), T_pa)
               THEN PetscEnd("getEnth_pa: T_pa exceeds T_m")
               ELSE LET c_w == cfg.water_specific_heat_capacity
                        c_i == cfg.ice_specific_heat_capacity
                        c   == Add(Mul(Sub(One, omega), c_i), Mul(omega, c_w))
                        T_0 == cfg.water_melting_temperature
                    IN  Return(Add(r.H_s, Mul(c, Sub(T_pa, T_0))))

getEnth_pa(cfg, T_pa, omega, p) ==
  IF Less(omega, Zero) \/ Less(One, omega)
    THEN PetscEnd("getEnth_pa: omega not in [0,1]")
    ELSE LET r == get_H_s(cfg, p)
         IN  IF Less(Add(r.T_m, Tol), T_pa)
               THEN PetscEnd("getEnth_pa: T_pa exceeds T_m")
               ELSE LET c_w == cfg.water_specific_heat_capacity
                        c_i == cfg.ice_specific_heat_capacity
                        c   == Add(Mul(Sub(One, omega), c_i), Mul(omega, c_w))
                    IN  Return(Add(r.H_s, Mul(c, Sub(T_pa, r.T_m))))

----------------------------------------------------------------------------
(* The caller: it holds a configuration and applies the conversions to     *)
(* temperatures, water fractions, pressures and enthalpies drawn from the  *)
(* sets below; an enthalpy returned by getEnth or getEnth_pa may be handed *)
(* on to getAbsTemp or getWaterFraction at the same pressure.              *)

MaxP == 2         \* pressures 0, 1e7, ..., MaxP * 1e7 Pa

MaxCold == 2      \* temperatures down to MaxCold kelvin below the bound

OmegaDen == 2     \* water fractions in steps of 1/OmegaDen

HDen == 2         \* enthalpies in steps of L/HDen around H_s(p)

PUnit == <<10000000, 1>>

Pressures == {Mul(Whole(k), PUnit) : k \in 0..MaxP}

Omegas == {Rat(k, OmegaDen) : k \in -1..(OmegaDen + 1)}

\* Temperatures around both melting bounds, T_0 and T_m(p).  The edge of the
\* tolerance (bound + 0.000001, bound + 0.000002) is drawn under SmallConfig,
\* whose enthalpies at that resolution stay within TLC's integers.
Temperatures(cfg, p) ==
  LET bounds == {cfg.water_melting_temperature, get_H_s(cfg, p).T_m}
  IN  {Add(b, Whole(k)) : b \in bounds, k \in -MaxCold..1}
      \cup (IF cfg = SmallConfig
              THEN {Add(b, Mul(Whole(k), Tol)) : b \in bounds, k \in 1..2}
              ELSE {})

\* the enthalpies of the end-to-end scenarios at p = 0:
\* 805143.55 - 2009, (c_w * T_0 - L) - 2009 and (c_w * T_0 - L) + 1000
ScenarioEnthalpies == {<<16062691, 20>>, <<1606053, 2>>, <<1612071, 2>>}

Enthalpies(cfg, p) ==
  LET r == get_H_s(cfg, p)
      L == cfg.water_latent_heat_fusion
  IN  {Add(r.H_s, Mul(Rat(k, HDen), L)) : k \in -HDen..(HDen + 1)}
      \cup ScenarioEnthalpies

NoCall == [op |-> "none", T |-> Zero, omega |-> Zero, p |-> Zero, H |-> Zero,
           outcome |-> "none", err |-> "", val |-> Zero]

Call(op, T, omega, p, H, res) ==
  [op |-> op, T |-> T, omega |-> omega, p |-> p, H |-> H,
   outcome |-> res.outcome, err |-> res.err, val |-> res.val]

\* the process is running: no conversion has called PetscEnd()
Running == cur.outcome # "end"

\* the enthalpies the caller can hand to getAbsTemp / getWaterFraction at p:
\* the drawn ones, and the one getEnth or getEnth_pa has just returned at p
Available(p) ==
  Enthalpies(config, p)
  \cup (IF cur.op \in {"getEnth", "getEnth_pa"} /\ cur.outcome = "ret" /\ cur.p = p
          THEN {cur.val} ELSE {})

\* prev is a history of the caller: the call before the one made now, kept
\* when the new call continues it, that is when it is made at the same
\* pressure and either converts the enthalpy the last call returned or
\* repeats the last call's conversion on another enthalpy.
Continues(op, p, H) ==
  /\ cur.outcome = "ret"
  /\ cur.p = p
  /\ \/ cur.op \in {"getEnth", "getEnth_pa"} /\ cur.val = H
     \/ cur.op = op

Init ==
  /\ config \in Configs
  /\ cur = NoCall
  /\ prev = NoCall
  /\ EnthIdle /\ RegIdle /\ FlowIdle /\ FevorIdle /\ CdiIdle

CallGetEnth ==
  /\ Running
  /\ \E p \in Pressures, omega \in Omegas :
       \E T \in Temperatures(config, p) :
         cur' = Call("getEnth", T, omega, p, Zero, getEnth(config, T, omega, p))
  /\ prev' = NoCall
  /\ UNCHANGED <<config, enthVars, reg, ice, fevor, cdi>>

CallGetEnth_pa ==
  /\ Running
  /\ \E p \in Pressures, omega \in Omegas :
       \E T \in Temperatures(config, p) :
         cur' = Call("getEnth_pa", T, omega, p, Zero, getEnth_pa(config, T, omega, p))
  /\ prev' = NoCall
  /\ UNCHANGED <<config, enthVars, reg, ice, fevor, cdi>>

CallGetAbsTemp ==
  /\ Running
  /\ \E p \in Pressures :
       \E H \in Available(p) :
         /\ cur' = Call("getAbsTemp", Zero, Zero, p, H, getAbsTemp(config, H, p))
         /\ prev' = IF Continues("getAbsTemp", p, H) THEN cur ELSE NoCall
  /\ UNCHANGED <<config, enthVars, reg, ice, fevor, cdi>>

CallGetWaterFraction ==
  /\ Running
  /\ \E p \in Pressures :
       \E H \in Available(p) :
         /\ cur' = Call("getWaterFraction", Zero, Zero, p, H,
                        getWaterFraction(config, H, p))
         /\ prev' = IF Continues("getWaterFraction", p, H) THEN cur ELSE NoCall
  /\ UNCHANGED <<config, enthVars, reg, ice, fevor, cdi>>

Next ==
  \/ CallGetEnth
  \/ CallGetEnth_pa
  \/ CallGetAbsTemp
  \/ CallGetWaterFraction

Spec == Init /\ [][Next]_vars

----------------------------------------------------------------------------
(* The quantities the properties are stated with, written from their       *)
(* statement: T_m(p) = T_0 - beta p, H_l(p) = c_w T_m(p), H_s(p) = H_l(p)  *)
(* - L, and the heat capacity of the mixture.                              *)

pressureMeltingPoint(p) ==
  Sub(config.water_melting_temperature, Mul(config.beta_CC, p))

liquidEnthalpy(p) ==
  Mul(config.water_specific_heat_capacity, pressureMeltingPoint(p))

solidEnthalpyBound(p) ==
  Sub(liquidEnthalpy(p), config.water_latent_heat_fusion)

mixtureHeatCapacity(w) ==
  Add(config.ice_specific_heat_capacity,
      Mul(w, Sub(config.water_specific_heat_capacity,
                 config.ice_specific_heat_capacity)))

Near(a, b) == Leq(Sub(a, b), Tol) /\ Leq(Sub(b, a), Tol)

IsEnthCall(c) == c.op \in {"getEnth", "getEnth_pa"}

IsBackCall(c) == c.op \in {"getAbsTemp", "getWaterFraction"}

\* the melting bound of the conversion call c: T_0 for getEnth, T_m(p) for
\* getEnth_pa
MeltingBound(c) ==
  IF c.op = "getEnth" THEN config.water_melting_temperature
                      ELSE pressureMeltingPoint(c.p)

\* cur converts back the enthalpy that the valid call prev has returned
ConvertsBack ==
  /\ IsEnthCall(prev) /\ prev.outcome = "ret"
  /\ IsBackCall(cur) /\ cur.H = prev.val /\ cur.p = prev.p
  /\ Leq(Zero, prev.omega) /\ Leq(prev.omega, One)
  /\ Leq(prev.T, MeltingBound(prev))

----------------------------------------------------------------------------
\* C1: round trip. Whenever getAbsTemp or getWaterFraction is applied, at the
\* same pressure, to the enthalpy that getEnth or getEnth_pa returned for a
\* water fraction in [0,1] and a temperature not above the melting bound, it
\* returns the temperature, resp. the water fraction, that was converted
\* (within the tolerance).
C1_RoundTrip ==
  ConvertsBack =>
    /\ cur.outcome = "ret"
    /\ cur.op = "getAbsTemp" => Near(cur.val, prev.T)
    /\ cur.op = "getWaterFraction" => Near(cur.val, prev.omega)

\* C2: getAbsTemp returns T_m(p) + (H - H_s(p))/c_i for H < H_s(p) and
\* exactly T_m(p) for H_s(p) <= H < H_l(p).
C2_AbsTemp ==
  cur.op = "getAbsTemp" =>
    LET Tm == pressureMeltingPoint(cur.p)
        Hl == liquidEnthalpy(cur.p)
        Hs == solidEnthalpyBound(cur.p)
    IN  /\ Less(cur.H, Hs) =>
             /\ cur.outcome = "ret"
             /\ Mul(config.ice_specific_heat_capacity, Sub(cur.val, Tm))
                  = Sub(cur.H, Hs)
        /\ (Leq(Hs, cur.H) /\ Less(cur.H, Hl)) =>
             /\ cur.outcome = "ret"
             /\ cur.val = Tm

\* a cold conversion followed by a temperate one at a pressure above zero
C2_Witness ==
  /\ prev.op = "getAbsTemp" /\ cur.op = "getAbsTemp"
  /\ Less(Zero, cur.p)
  /\ Less(prev.H, solidEnthalpyBound(prev.p)) /\ prev.outcome = "ret"
  /\ Less(solidEnthalpyBound(cur.p), cur.H)
  /\ Less(cur.H, liquidEnthalpy(cur.p)) /\ cur.outcome = "ret"

\* C3: getWaterFraction returns 0 for H <= H_s(p), in particular at H_s(p),
\* and (H - H_s(p))/L for H_s(p) < H < H_l(p).
C3_WaterFraction ==
  cur.op = "getWaterFraction" =>
    LET Hl == liquidEnthalpy(cur.p)
        Hs == solidEnthalpyBound(cur.p)
    IN  /\ Leq(cur.H, Hs) =>
             /\ cur.outcome = "ret"
             /\ cur.val = Zero
        /\ (Less(Hs, cur.H) /\ Less(cur.H, Hl)) =>
             /\ cur.outcome = "ret"
             /\ Mul(config.water_latent_heat_fusion, cur.val) = Sub(cur.H, Hs)

\* the water fraction at H_s(p) exactly, then one strictly inside the
\* temperate range
C3_Witness ==
  /\ prev.op = "getWaterFraction" /\ cur.op = "getWaterFraction"
  /\ prev.H = solidEnthalpyBound(prev.p) /\ prev.val = Zero
  /\ Less(solidEnthalpyBound(cur.p), cur.H)
  /\ Less(cur.H, liquidEnthalpy(cur.p))
  /\ Less(Zero, cur.val)

\* C4: for H >= H_l(p), H = H_l(p) included, getAbsTemp and getWaterFraction
\* end in the fatal liquid-water error and hand no value back.
C4_LiquidWaterFatal ==
  (IsBackCall(cur) /\ Leq(liquidEnthalpy(cur.p), cur.H)) =>
    /\ cur.outcome = "end"
    /\ cur.op = "getAbsTemp" => cur.err = "getAbsTemp: liquid water"
    /\ cur.op = "getWaterFraction" => cur.err = "getWaterFraction: liquid water"
    /\ ~Running

\* getWaterFraction has been applied to H = H_l(p) exactly
C4_Witness ==
  /\ cur.op = "getWaterFraction"
  /\ cur.H = liquidEnthalpy(cur.p)
  /\ cur.outcome = "end"

\* C5: at a fixed pressure, getAbsTemp and getWaterFraction are non-decreasing
\* in H below H_l(p), and every water fraction returned lies in [0, 1).
C5_Monotone ==
  /\ (/\ IsBackCall(cur) /\ prev.op = cur.op /\ prev.p = cur.p
      /\ prev.outcome = "ret" /\ cur.outcome = "ret") =>
       /\ Leq(prev.H, cur.H) => Leq(prev.val, cur.val)
       /\ Leq(cur.H, prev.H) => Leq(cur.val, prev.val)
  /\ (cur.op = "getWaterFraction" /\ cur.outcome = "ret") =>
       /\ Leq(Zero, cur.val)
       /\ Less(cur.val, One)

\* two water fractions at one pressure, the second strictly larger
C5_Witness ==
  /\ prev.op = "getWaterFraction" /\ cur.op = "getWaterFraction"
  /\ prev.p = cur.p
  /\ Less(prev.H, cur.H)
  /\ Less(Zero, prev.val) /\ Less(prev.val, cur.val)

\* C6: getEnth and getEnth_pa end in the fatal water-fraction error for every
\* omega < 0 and every omega > 1, whatever T and p are, and return no
\* enthalpy; omega = 0 and omega = 1 pass the water-fraction check.
C6_OmegaRange ==
  IsEnthCall(cur) =>
    /\ (Less(cur.omega, Zero) \/ Less(One, cur.omega)) =>
         /\ cur.outcome = "end"
         /\ cur.op = "getEnth" => cur.err = "getEnth: omega not in [0,1]"
         /\ cur.op = "getEnth_pa" => cur.err = "getEnth_pa: omega not in [0,1]"
         /\ ~Running
    /\ (cur.omega \in {Zero, One}
        /\ Leq(cur.T, Add(MeltingBound(cur), Tol))) =>
         cur.outcome = "ret"

\* getEnth_pa has accepted omega = 1 at a pressure above zero
C6_Witness ==
  /\ cur.op = "getEnth_pa"
  /\ cur.omega = One
  /\ Less(Zero, cur.p)
  /\ cur.outcome = "ret"

\* C7: getEnth ends fatally exactly when T exceeds T_0 by more than 0.000001,
\* at every pressure, and getEnth_pa exactly when T_pa exceeds T_m(p) by more
\* than 0.000001; a temperature at or below the bound plus the tolerance is
\* accepted (for a water fraction in [0,1]).
C7_TemperatureBound ==
  IsEnthCall(cur) =>
    LET limit == Add(MeltingBound(cur), Tol)
    IN  /\ Less(limit, cur.T) => cur.outcome = "end"
        /\ (Leq(Zero, cur.omega) /\ Leq(cur.omega, One)) =>
             /\ cur.outcome = "end" <=> Less(limit, cur.T)
             /\ (cur.outcome = "end" /\ cur.op = "getEnth") =>
                  cur.err = "getEnth: T exceeds T_0"
             /\ (cur.outcome = "end" /\ cur.op = "getEnth_pa") =>
                  cur.err = "getEnth_pa: T_pa exceeds T_m"

\* getEnth_pa has accepted a temperature exactly 0.000001 above T_m(p), at a
\* pressure above zero
C7_Witness ==
  /\ cur.op = "getEnth_pa"
  /\ Less(Zero, cur.p)
  /\ cur.T = Add(pressureMeltingPoint(cur.p), Tol)
  /\ cur.outcome = "ret"

\* C8: for every accepted input, getEnth returns
\* H_s(p) + ((1-omega) c_i + omega c_w)(T - T_0) and getEnth_pa returns
\* H_s(p) + ((1-omega) c_i + omega c_w)(T_pa - T_m(p)); at the melting bound
\* the result is exactly H_s(p) for every omega.
C8_EnthFormula ==
  (IsEnthCall(cur) /\ cur.outcome = "ret") =>
    /\ cur.val = Add(solidEnthalpyBound(cur.p),
                     Mul(mixtureHeatCapacity(cur.omega),
                         Sub(cur.T, MeltingBound(cur))))
    /\ cur.T = MeltingBound(cur) => cur.val = solidEnthalpyBound(cur.p)

\* getEnth_pa has returned an enthalpy for wet ice below the melting point
\* at a pressure above zero
C8_Witness ==
  /\ cur.op = "getEnth_pa"
  /\ cur.outcome = "ret"
  /\ Less(Zero, cur.p)
  /\ Less(Zero, cur.omega) /\ Less(cur.omega, One)
  /\ Less(cur.T, pressureMeltingPoint(cur.p))

\* C9 as stated: with the constants of PismConfig at p = 0, H_s(0) is
\* 805143.55, and H = 805143.55 - 2009 is converted to the temperature 272.15
\* and the water fraction 0.
C9_Scenario ==
  (config = PismConfig /\ IsBackCall(cur) /\ cur.p = Zero
   /\ cur.H = <<16062691, 20>>) =>
    /\ solidEnthalpyBound(Zero) = <<16102871, 20>>
    /\ cur.outcome = "ret"
    /\ cur.op = "getAbsTemp" => cur.val = <<5443, 20>>
    /\ cur.op = "getWaterFraction" => cur.val = Zero

\* C9 amended: with the constants of PismConfig at p = 0, H_s(0) = c_w T_0 - L
\* is 805035.5, and H = 805035.5 - 2009 is converted to the temperature
\* 272.15 and the water fraction 0.
C9_ScenarioAmended ==
  (config = PismConfig /\ IsBackCall(cur) /\ cur.p = Zero
   /\ cur.H = <<1606053, 2>>) =>
    /\ solidEnthalpyBound(Zero) = <<1610071, 2>>
    /\ get_H_s(config, Zero).H_s = <<1610071, 2>>
    /\ cur.outcome = "ret"
    /\ cur.op = "getAbsTemp" => cur.val = <<5443, 20>>
    /\ cur.op = "getWaterFraction" => cur.val = Zero

\* getAbsTemp has converted 805035.5 - 2009 at p = 0 under PismConfig
C9_Witness ==
  /\ config = PismConfig
  /\ cur.op = "getAbsTemp"
  /\ cur.p = Zero
  /\ cur.H = <<1606053, 2>>
  /\ cur.outcome = "ret"

\* C10: with the constants of PismConfig at p = 0, H = (c_w T_0 - L) + 1000 is
\* converted to exactly T_0 and to the water fraction 1000/334000.
C10_Scenario ==
  (config = PismConfig /\ IsBackCall(cur) /\ cur.p = Zero
   /\ cur.H = Add(Sub(Mul(<<4170, 1>>, <<5463, 20>>), <<334000, 1>>),
                  <<1000, 1>>)) =>
    /\ cur.outcome = "ret"
    /\ cur.op = "getAbsTemp" => cur.val = <<5463, 20>>
    /\ cur.op = "getWaterFraction" => cur.val = Rat(1000, 334000)

\* getWaterFraction has converted H_s(0) + 1000 at p = 0 under PismConfig
C10_Witness ==
  /\ config = PismConfig
  /\ cur.op = "getWaterFraction"
  /\ cur.p = Zero
  /\ cur.H = <<1612071, 2>>
  /\ cur.outcome = "ret"

----------------------------------------------------------------------------
(* IceEnthalpyModel on a distributed grid.  Every process owns one column  *)
(* of Mz levels and keeps a copy (ghost) of the columns owned by its left  *)
(* and right neighbours; the processes form a ring (periodic grid).        *)

NProc == 2        \* processes

Mz == 2           \* vertical levels, at heights 0, 1, ..., Mz - 1

MaxSteps == 1     \* time steps taken by a run

Procs == 1..NProc

Levels == 0..(Mz - 1)

Left(r) == IF r = 1 THEN NProc ELSE r - 1

Right(r) == IF r = NProc THEN 1 ELSE r + 1

zlevels(k) == Whole(k)

\* SmallConfig with the three keys getPressureFromDepth reads
ColumnConfig ==
  [water_melting_temperature    |-> SmallConfig.water_melting_temperature,
   beta_CC                      |-> SmallConfig.beta_CC,
   water_specific_heat_capacity |-> SmallConfig.water_specific_heat_capacity,
   ice_specific_heat_capacity   |-> SmallConfig.ice_specific_heat_capacity,
   water_latent_heat_fusion     |-> SmallConfig.water_latent_heat_fusion,
   surface_pressure             |-> <<1000000, 1>>,
   earth_gravity                |-> <<10, 1>>,
   ice_density                  |-> <<1000, 1>>]

getPressureFromDepth(cfg, depth) ==
  LET p_air == cfg.surface_pressure
      g     == cfg.earth_gravity
      rho_i == cfg.ice_density
  IN  IF Leq(depth, Zero)
        THEN p_air
        ELSE Add(p_air, Mul(Mul(rho_i, g), depth))

\* a field that has been allocated and not yet set
Unset == <<0, 0>>

UnsetColumn == [k \in Levels |-> Unset]

\* The temperature columns an input file or a temperature step provides:
\* colder with height from a base at the edge of the tolerance of getEnth
\* (T_0 + 0.000001), or cold with a top level warmer than T_0 (which is air
\* unless the ice reaches above it).
ProfileKinds == {"cold", "warmTop"}

TProfile(kind) ==
  LET T_0 == ColumnConfig.water_melting_temperature
  IN  [k \in Levels |->
         IF kind = "warmTop"
           THEN IF k = Mz - 1 THEN Add(T_0, One) ELSE Sub(T_0, One)
           ELSE IF k = 0 THEN Add(T_0, Tol) ELSE Sub(T_0, Whole(k))]

\* ice thicknesses: no ice, ice up to the top level exactly, ice above every level
Thicknesses == {Zero, Whole(Mz - 1), Whole(Mz)}

\* the enthalpy variable of a file: temperate values, none of which a cold
\* column produces
FileEnthalpy(r) == [k \in Levels |-> Whole(32 + r + k)]

\* An input file: the fields IceModel::initFromFile reads (the temperature
\* profile of its columns and the thickness of every column), whether it
\* has the variable 'enthalpy', and the lengths of its z and zb dimensions
\* (0: the dimension is absent).
Files ==
  {f \in [enthExists : BOOLEAN, z_len : {0, Mz}, zb_len : {0, 1},
          T3 : ProfileKinds, thk : [Procs -> Thicknesses]] :
     ~f.enthExists => (f.z_len = Mz /\ f.zb_len = 1)}

\* The body of the loop of setEnth3FromT3_ColdIce, for every level of one
\* owned column: a level in the ice gets getEnth(T, 0, p(depth)), a level at
\* or above the surface gets 0.
ColdIceValues_surfaceInIce(cfg, T, thk) ==
  [k \in Levels |->
     IF Leq(Zero, Sub(thk, zlevels(k)))
       THEN getEnth(cfg, T[k], Zero,
                    getPressureFromDepth(cfg, Sub(thk, zlevels(k))))
       ELSE Return(Zero)]

ColdIceValues(cfg, T, thk) ==
  [k \in Levels |->
     IF Less(Zero, Sub(thk, zlevels(k)))
       THEN getEnth(cfg, T[k], Zero,
                    getPressureFromDepth(cfg, Sub(thk, zlevels(k))))
       ELSE Return(Zero)]

\* The loop runs upwards from level 0: a getEnth that calls PetscEnd() ends
\* the process with the levels below it written.
LoopOutcome(res, Enth) ==
  LET bad == {k \in Levels : res[k].outcome = "end"}
      kf  == IF bad = {} THEN Mz
             ELSE CHOOSE k \in bad : \A j \in bad : k <= j
  IN  [ended |-> bad # {},
       err   |-> IF bad = {} THEN "" ELSE res[kf].err,
       Enth3 |-> [k \in Levels |-> IF k < kf THEN res[k].val ELSE Enth[k]]]

setEnth3FromT3_ColdIce(cfg, T, thk, Enth) ==
  LoopOutcome(ColdIceValues(cfg, T, thk), Enth)

\* the values a process hands to the ghost exchange: beginGhostComm is
\* called after the loop, so they are the values the loop has written
GhostValues_beforeLoop(before, after) == before

GhostValues(before, after) == after

\* what initFromFile does about the enthalpy, by the contents of the file
EnthalpySource_eitherDim(f) ==
  IF f.enthExists
    THEN IF f.z_len # 0 \/ f.zb_len # 0 THEN "regrid" ELSE "PetscEnd"
    ELSE "setEnth3FromT3_ColdIce"

EnthalpySource(f) ==
  IF f.enthExists
    THEN IF f.z_len # 0 /\ f.zb_len # 0 THEN "regrid" ELSE "PetscEnd"
    ELSE "setEnth3FromT3_ColdIce"

\* entry and sweep are a history of the object: T3 and the thickness as they
\* were when setEnth3FromT3_ColdIce was entered last, and the step the last
\* call of temperatureStep handed the sweep to.
Constructed ==
  [pc |-> "constructed", err |-> "", T3 |-> UnsetColumn, vH |-> Unset,
   Enth3 |-> UnsetColumn, EnthNew3 |-> UnsetColumn,
   ghostL |-> UnsetColumn, ghostR |-> UnsetColumn,
   sent |-> UnsetColumn, out |-> UnsetColumn, steps |-> 0, sweep |-> "none",
   entry |-> [T3 |-> UnsetColumn, vH |-> Unset]]

EnthInit ==
  /\ config = ColumnConfig
  /\ file \in Files
  /\ cold = TRUE
  /\ em = [r \in Procs |-> Constructed]
  /\ chan = [r \in Procs |-> [L |-> <<>>, R |-> <<>>]]
  /\ ConvIdle /\ RegIdle /\ FlowIdle /\ FevorIdle /\ CdiIdle

\* beginGhostComm of process r: its owned column travels to the left ghost
\* of its right neighbour and to the right ghost of its left neighbour
Send(ch, r, col) ==
  LET c1 == [ch EXCEPT ![Right(r)].L = Append(@, col)]
  IN  [c1 EXCEPT ![Left(r)].R = Append(@, col)]

\* option processing (outside iceEnthalpyModel.cc) selects the enthalpy
\* step on every process before the run starts
SetEnthalpyStep ==
  /\ cold
  /\ \A r \in Procs : em[r].pc = "constructed"
  /\ cold' = FALSE
  /\ UNCHANGED <<config, convVars, file, em, chan, reg, ice, fevor, cdi>>

\* initFromFile up to its return or, when it derives the enthalpy from the
\* temperature, up to the beginGhostComm of setEnth3FromT3_ColdIce
InitFromFile(r) ==
  /\ em[r].pc = "constructed"
  /\ \E src \in {EnthalpySource(file)},
        set \in {setEnth3FromT3_ColdIce(config, TProfile(file.T3),
                                        file.thk[r], em[r].Enth3)},
        m \in {[em[r] EXCEPT !.T3 = TProfile(file.T3), !.vH = file.thk[r],
                             !.entry = IF EnthalpySource(file) = "setEnth3FromT3_ColdIce"
                                         THEN [T3 |-> TProfile(file.T3),
                                               vH |-> file.thk[r]]
                                         ELSE @]} :
         \/ /\ src = "PetscEnd"
            /\ em' = [em EXCEPT ![r] = [m EXCEPT !.pc = "ended",
                                        !.err = "initFromFile: z or zb dimension missing"]]
            /\ chan' = chan
         \/ /\ src = "regrid"
            /\ em' = [em EXCEPT ![r] = [m EXCEPT !.pc = "ready",
                                        !.Enth3 = FileEnthalpy(r),
                                        !.ghostL = FileEnthalpy(Left(r)),
                                        !.ghostR = FileEnthalpy(Right(r))]]
            /\ chan' = chan
         \/ /\ src = "setEnth3FromT3_ColdIce"
            /\ set.ended
            /\ em' = [em EXCEPT ![r] = [m EXCEPT !.pc = "ended", !.err = set.err,
                                        !.Enth3 = set.Enth3]]
            /\ chan' = chan
         \/ /\ src = "setEnth3FromT3_ColdIce"
            /\ ~set.ended
            /\ em' = [em EXCEPT ![r] =
                        [m EXCEPT !.pc = "initComm", !.Enth3 = set.Enth3,
                                  !.sent = GhostValues(em[r].Enth3, set.Enth3)]]
            /\ chan' = Send(chan, r, GhostValues(em[r].Enth3, set.Enth3))
  /\ UNCHANGED <<config, convVars, file, cold, reg, ice, fevor, cdi>>

\* IceEnthalpyModel::temperatureStep: the step it hands the sweep to
temperatureStep_alwaysEnthalpy(coldStep) == "enthalpyStep"

temperatureStep(coldStep) ==
  IF coldStep THEN "IceModel::temperatureStep" ELSE "enthalpyStep"

\* IceEnthalpyModel::enthalpyStep prints that it is not implemented and
\* calls PetscEnd()
enthalpyStep == PetscEnd("enthalpyStep: NOT IMPLEMENTED")

\* temperatureAgeStep up to its return, to the PetscEnd() of the sweep or to
\* the beginGhostCommTransfer of the new enthalpy.  IceModel's
\* temperatureAgeStep runs the sweep through the virtual temperatureStep; a
\* cold sweep leaves a new temperature column in T3.
TemperatureAgeStep(r) ==
  /\ em[r].pc = "ready"
  /\ em[r].steps < MaxSteps
  /\ \E kind \in ProfileKinds :
       LET sweep == temperatureStep(cold)
           m     == [em[r] EXCEPT !.steps = @ + 1, !.sweep = sweep]
       IN  IF sweep = "IceModel::temperatureStep"
             THEN /\ em' = [em EXCEPT ![r] =
                              IF cold THEN [m EXCEPT !.T3 = TProfile(kind)]
                              ELSE [m EXCEPT !.T3 = TProfile(kind),
                                             !.Enth3 = m.EnthNew3,
                                             !.sent = m.EnthNew3,
                                             !.pc = "stepComm"]]
                  /\ chan' = IF cold THEN chan ELSE Send(chan, r, em[r].EnthNew3)
             ELSE IF enthalpyStep.outcome = "end"
             THEN /\ em' = [em EXCEPT ![r] = [em[r] EXCEPT !.pc = "ended",
                                                !.sweep = sweep,
                                                !.err = enthalpyStep.err]]
                  /\ chan' = chan
             ELSE /\ em' = [em EXCEPT ![r] =
                              IF cold THEN m
                              ELSE [m EXCEPT !.Enth3 = m.EnthNew3,
                                             !.sent = m.EnthNew3,
                                             !.pc = "stepComm"]]
                  /\ chan' = IF cold THEN chan ELSE Send(chan, r, em[r].EnthNew3)
  /\ UNCHANGED <<config, convVars, file, cold, reg, ice, fevor, cdi>>

\* write_extra_fields up to the write of Enth3 or, in a cold run, up to the
\* beginGhostComm of setEnth3FromT3_ColdIce
WriteExtraFields(r) ==
  /\ em[r].pc = "ready"
  /\ \E set \in {setEnth3FromT3_ColdIce(config, em[r].T3, em[r].vH,
                                        em[r].Enth3)} :
         \/ /\ cold /\ set.ended
            /\ em' = [em EXCEPT ![r] = [em[r] EXCEPT !.pc = "ended", !.err = set.err,
                                              !.Enth3 = set.Enth3,
                                              !.entry = [T3 |-> em[r].T3,
                                                         vH |-> em[r].vH]]]
            /\ chan' = chan
         \/ /\ cold /\ ~set.ended
            /\ em' = [em EXCEPT ![r] =
                        [em[r] EXCEPT !.pc = "writeComm", !.Enth3 = set.Enth3,
                                      !.entry = [T3 |-> em[r].T3, vH |-> em[r].vH],
                                      !.sent = GhostValues(em[r].Enth3, set.Enth3)]]
            /\ chan' = Send(chan, r, GhostValues(em[r].Enth3, set.Enth3))
         \/ /\ ~cold
            /\ em' = [em EXCEPT ![r] = [em[r] EXCEPT !.pc = "written",
                                              !.out = em[r].Enth3]]
            /\ chan' = chan
  /\ UNCHANGED <<config, convVars, file, cold, reg, ice, fevor, cdi>>

\* endGhostComm (endGhostCommTransfer) of process r and the rest of the
\* operation that called it: the values of both neighbours have arrived
EndGhostComm(r) ==
  /\ em[r].pc \in {"initComm", "stepComm", "writeComm"}
  /\ chan[r].L # <<>>
  /\ chan[r].R # <<>>
  /\ LET m == [em[r] EXCEPT !.ghostL = Head(chan[r].L),
                            !.ghostR = Head(chan[r].R)]
     IN  em' = [em EXCEPT ![r] =
                  IF em[r].pc = "writeComm"
                    THEN [m EXCEPT !.pc = "written", !.out = m.Enth3]
                    ELSE [m EXCEPT !.pc = "ready"]]
  /\ chan' = [chan EXCEPT ![r] = [L |-> Tail(chan[r].L), R |-> Tail(chan[r].R)]]
  /\ UNCHANGED <<config, convVars, file, cold, reg, ice, fevor, cdi>>

EnthNext ==
  \/ SetEnthalpyStep
  \/ \E r \in Procs : InitFromFile(r)
  \/ \E r \in Procs : TemperatureAgeStep(r)
  \/ \E r \in Procs : WriteExtraFields(r)
  \/ \E r \in Procs : EndGhostComm(r)

EnthSpec == EnthInit /\ [][EnthNext]_vars

----------------------------------------------------------------------------
(* The enthalpy of cold ice as the properties state it: 0 at or above the  *)
(* surface, getEnth(T, 0, p) at the pressure of the ice above otherwise.   *)

hydrostaticPressure(depth) ==
  Add(config.surface_pressure,
      Mul(Mul(config.ice_density, config.earth_gravity), depth))

coldIceEnthalpy(T, thk, k) ==
  IF Leq(Sub(thk, zlevels(k)), Zero)
    THEN Zero
    ELSE getEnth(config, T, Zero, hydrostaticPressure(Sub(thk, zlevels(k)))).val

InIce(r, k) == Less(Zero, Sub(em[r].vH, zlevels(k)))

\* C11: initFromFile. Without a variable 'enthalpy' in the file Enth3 is the
\* cold-ice enthalpy (water fraction 0) of the temperature read from the
\* file; with the variable and both dimensions Enth3 holds the file's values
\* and not values derived from the temperature; with the variable and the z
\* or the zb dimension absent the process ends and never becomes ready.
C11_InitFromFile ==
  \A r \in Procs :
    /\ (~file.enthExists /\ em[r].pc \in {"initComm", "ready"}) =>
         \A k \in Levels :
           em[r].Enth3[k] = coldIceEnthalpy(TProfile(file.T3)[k], file.thk[r], k)
    /\ (file.enthExists /\ file.z_len # 0 /\ file.zb_len # 0
          /\ em[r].pc = "ready") =>
         em[r].Enth3 = FileEnthalpy(r)
    /\ (file.enthExists /\ (file.z_len = 0 \/ file.zb_len = 0)) =>
         /\ em[r].pc \in {"constructed", "ended"}
         /\ em[r].Enth3 = UnsetColumn

\* a file with 'enthalpy' has been read over a column that holds ice, whose
\* temperature would have given other values
C11_Witness ==
  \E r \in Procs :
    /\ file.enthExists /\ em[r].pc = "ready"
    /\ em[r].Enth3 = FileEnthalpy(r)
    /\ \E k \in Levels :
         /\ InIce(r, k)
         /\ em[r].Enth3[k] # coldIceEnthalpy(em[r].T3[k], em[r].vH, k)

\* C20: when setEnth3FromT3_ColdIce has run its loop, every level of the
\* owned column holds exactly 0 if it is at or above the ice surface and
\* getEnth(T3[k], 0, surface_pressure + ice_density * earth_gravity * depth)
\* otherwise, and T3 and the thickness are as they were on entry.
C20_ColdIceEnthalpy ==
  \A r \in Procs :
    em[r].pc \in {"initComm", "writeComm"} =>
      /\ \A k \in Levels :
           em[r].Enth3[k] = coldIceEnthalpy(em[r].entry.T3[k], em[r].entry.vH, k)
      /\ em[r].T3 = em[r].entry.T3
      /\ em[r].vH = em[r].entry.vH

\* a column whose top level lies exactly at the surface and is warmer than
\* T_0, above a level in the ice
C20_Witness ==
  \E r \in Procs :
    /\ em[r].pc \in {"initComm", "writeComm"}
    /\ em[r].vH = zlevels(Mz - 1)
    /\ Less(config.water_melting_temperature, em[r].T3[Mz - 1])
    /\ em[r].Enth3[Mz - 1] = Zero
    /\ InIce(r, 0) /\ em[r].Enth3[0] # Zero

\* process r has begun a time step with the enthalpy step selected
EnthalpyStepBegun(r) ==
  /\ ~cold
  /\ em[r].steps > 0 \/ em[r].err = "enthalpyStep: NOT IMPLEMENTED"

\* no level of Enth3 in the ice of process r reaches the enthalpy of liquid
\* water at its pressure
NoLiquid(r) ==
  \A k \in Levels :
    InIce(r, k) =>
      Less(em[r].Enth3[k],
           liquidEnthalpy(hydrostaticPressure(Sub(em[r].vH, zlevels(k)))))

C13_StepFinishes ==
  \A r \in Procs :
    (EnthalpyStepBegun(r) /\ NoLiquid(r)) => em[r].pc # "ended"

\* the last ghost exchange of Enth3 has completed on process r
ExchangeCompleted(r) ==
  \/ em[r].pc = "ready" /\ ~file.enthExists
  \/ em[r].pc = "ready" /\ ~cold /\ em[r].steps > 0
  \/ em[r].pc = "written" /\ cold

ColdIceLoopDone(r) ==
  \/ em[r].pc \in {"initComm", "writeComm"}
  \/ em[r].pc = "ready" /\ ~file.enthExists
  \/ em[r].pc = "written" /\ cold

\* C21: after setEnth3FromT3_ColdIce has completed without a fatal error,
\* every owned enthalpy value in the ice is strictly below H_l(p) at its own
\* pressure, and getAbsTemp and getWaterFraction applied to it return a
\* value instead of ending the process.
C21_BelowLiquid ==
  \A r \in Procs :
    ColdIceLoopDone(r) =>
      \A k \in Levels :
        InIce(r, k) =>
          LET p == hydrostaticPressure(Sub(em[r].vH, zlevels(k)))
          IN  /\ Less(em[r].Enth3[k], liquidEnthalpy(p))
              /\ getAbsTemp(config, em[r].Enth3[k], p).outcome = "ret"
              /\ getWaterFraction(config, em[r].Enth3[k], p).outcome = "ret"

\* the loop has accepted a level in the ice that is warmer than T_0, within
\* the tolerance, and its enthalpy lies above H_s(p)
C21_Witness ==
  \E r \in Procs, k \in Levels :
    /\ em[r].pc \in {"initComm", "writeComm"}
    /\ InIce(r, k)
    /\ Less(config.water_melting_temperature, em[r].T3[k])
    /\ Less(solidEnthalpyBound(hydrostaticPressure(Sub(em[r].vH, zlevels(k)))),
            em[r].Enth3[k])

\* the enthalpy initFromFile has left in Enth3 of process r
EnthalpyAtInit(r) ==
  IF file.enthExists
    THEN FileEnthalpy(r)
    ELSE [k \in Levels |->
            coldIceEnthalpy(TProfile(file.T3)[k], file.thk[r], k)]

\* C22: with doColdIceTemperatureStep true, the time steps run the step of
\* IceModel and never enthalpyStep; they write neither Enth3 nor EnthNew3,
\* so between the steps Enth3 is what initFromFile has left, whatever T3 has
\* become; write_extra_fields alone recomputes Enth3 from the current T3,
\* and the values written to the file are those.
C22_ColdRunFrame ==
  \A r \in Procs :
    cold =>
      /\ em[r].sweep # "enthalpyStep"
      /\ em[r].err # "enthalpyStep: NOT IMPLEMENTED"
      /\ em[r].EnthNew3 = UnsetColumn
      /\ em[r].pc = "ready" => em[r].Enth3 = EnthalpyAtInit(r)
      /\ em[r].pc = "written" =>
           /\ \A k \in Levels :
                em[r].Enth3[k] = coldIceEnthalpy(em[r].T3[k], em[r].vH, k)
           /\ em[r].out = em[r].Enth3

\* a cold time step has replaced the temperature of a column that holds ice
\* and Enth3 still holds the enthalpy of the temperature read from the file
C22_Witness ==
  \E r \in Procs :
    /\ cold /\ em[r].pc = "ready" /\ em[r].steps > 0
    /\ em[r].sweep = "IceModel::temperatureStep"
    /\ ~file.enthExists
    /\ em[r].T3 # TProfile(file.T3)
    /\ \E k \in Levels :
         /\ InIce(r, k)
         /\ em[r].Enth3[k] # coldIceEnthalpy(em[r].T3[k], em[r].vH, k)

----------------------------------------------------------------------------
(* IceRegionalModel (src/regional/IceRegionalModel.hh declares it; its     *)
(* steps are modelled as the specification describes them): a row of cells *)
(* with integer ice thickness, a no-model mask and the snapshot of the     *)
(* state stored at setup.  Cell i and cell i + 1 share a face; the west    *)
(* face of cell 1 and the east face of the last cell are the boundary of   *)
(* the domain.                                                             *)

NCells == 3        \* cells in the row

MaxRegSteps == 2   \* steps taken by a run

Cells == 1..NCells

bed(i) == i        \* bed elevation: usurf = bed + thickness

\* the flux from a cell (velocity u1, thickness H1) to its east neighbour
\* (u2, H2): the interpolated velocity (u1 + u2)/2 times the upwind
\* thickness, for a time step of half a cell per unit velocity; equal and
\* opposite velocities give no flux
faceFlux(u1, u2, H1, H2) ==
  IF u1 + u2 > 0 THEN ((u1 + u2) * H1) \div 4
  ELSE IF u1 + u2 < 0 THEN -((-(u1 + u2) * H2) \div 4)
  ELSE 0

\* the thickness the limiter reads for cell j: the stored one when the cell
\* is held
SideThickness(m, j) == IF m.mask[j] THEN m.thk_stored[j] ELSE m.thk[j]

\* cell_interface_fluxes(i, ...): the fluxes leaving cell i through its east
\* and west face; edge is the flux entering through the west boundary of the
\* domain
cell_interface_fluxes_ownThickness(m, i, edge) ==
  [E |-> IF i = NCells THEN 0
         ELSE faceFlux(m.u[i], m.u[i + 1], SideThickness(m, i),
                       SideThickness(m, i + 1)),
   W |-> IF i = 1 THEN -edge
         ELSE -faceFlux(m.u[i - 1], m.u[i], SideThickness(m, i),
                        SideThickness(m, i))]

cell_interface_fluxes(m, i, edge) ==
  [E |-> IF i = NCells THEN 0
         ELSE faceFlux(m.u[i], m.u[i + 1], SideThickness(m, i),
                       SideThickness(m, i + 1)),
   W |-> IF i = 1 THEN -edge
         ELSE -faceFlux(m.u[i - 1], m.u[i], SideThickness(m, i - 1),
                        SideThickness(m, i))]

\* a held cell takes its value from the snapshot, a modelled cell the value
\* the step has computed
HeldValue_computed(held, stored, computed) == computed

HeldValue(held, stored, computed) == IF held THEN stored ELSE computed

NonNegative(x) == IF x < 0 THEN 0 ELSE x

\* massContExplicitStep with surface mass balance smb and boundary flux edge
massContExplicitStep(m, smb, edge) ==
  LET out == [i \in Cells |-> cell_interface_fluxes(m, i, edge)]
      H   == [i \in Cells |->
                HeldValue(m.mask[i], m.thk_stored[i],
                          NonNegative(m.thk[i] - out[i].E - out[i].W
                                      + smb - m.bmr[i]))]
  IN  [m EXCEPT !.thk = H,
                !.usurf = [i \in Cells |->
                             HeldValue(m.mask[i], m.usurf_stored[i], bed(i) + H[i])],
                !.steps = @ + 1,
                !.last = [op |-> "massContExplicitStep", smb |-> smb,
                          edge |-> edge, out |-> out, thk0 |-> m.thk,
                          bmr0 |-> m.bmr]]

\* enthalpyAndDrainageStep: the enthalpy step leaves the basal melt rate b
enthalpyAndDrainageStep(m, b) ==
  [m EXCEPT !.bmr = [i \in Cells |-> HeldValue(m.mask[i], m.bmr_stored[i], b)],
            !.steps = @ + 1,
            !.last = [m.last EXCEPT !.op = "enthalpyAndDrainageStep"]]

NoStep ==
  [op |-> "none", smb |-> 0, edge |-> 0, out |-> [i \in Cells |-> [E |-> 0, W |-> 0]],
   thk0 |-> [i \in Cells |-> 0], bmr0 |-> [i \in Cells |-> 0]]

\* The state after setup: the mask is set and the snapshot is the state.
\* atSetup is a history of the mask and the snapshot.
RegInit ==
  /\ \E mask \in [Cells -> BOOLEAN], H \in [Cells -> {0, 4}],
        u \in [Cells -> {-1, 1}] :
       LET snap == [thk |-> H, usurf |-> [i \in Cells |-> bed(i) + H[i]],
                    bmr |-> [i \in Cells |-> 0]]
       IN  reg = [mask |-> mask, u |-> u,
                  thk |-> snap.thk, usurf |-> snap.usurf, bmr |-> snap.bmr,
                  thk_stored |-> snap.thk, usurf_stored |-> snap.usurf,
                  bmr_stored |-> snap.bmr,
                  atSetup |-> [mask |-> mask, thk |-> snap.thk,
                               usurf |-> snap.usurf, bmr |-> snap.bmr],
                  steps |-> 0, last |-> NoStep]
  /\ config = ColumnConfig
  /\ ConvIdle /\ EnthIdle /\ FlowIdle /\ FevorIdle /\ CdiIdle

MassContExplicitStep ==
  /\ reg.steps < MaxRegSteps
  /\ \E in \in {<<0, 0>>, <<1, 0>>, <<0, 1>>} :
       reg' = massContExplicitStep(reg, in[1], in[2])
  /\ UNCHANGED <<config, convVars, enthVars, ice, fevor, cdi>>

EnthalpyAndDrainageStep ==
  /\ reg.steps < MaxRegSteps
  /\ reg' = enthalpyAndDrainageStep(reg, 1)
  /\ UNCHANGED <<config, convVars, enthVars, ice, fevor, cdi>>

RegNext == MassContExplicitStep \/ EnthalpyAndDrainageStep

RegSpec == RegInit /\ [][RegNext]_vars

RECURSIVE SumUpTo(_, _)
SumUpTo(f, n) == IF n = 0 THEN 0 ELSE f[n] + SumUpTo(f, n - 1)

TotalThickness(H) == SumUpTo(H, NCells)

\* C15: after any number of steps of IceRegionalModel every cell marked in
\* the no-model mask has the ice thickness, surface elevation and basal melt
\* rate of the snapshot stored at setup, and the snapshot and the mask are
\* the ones of the setup.
C15_HeldCells ==
  /\ \A i \in Cells :
       reg.mask[i] =>
         /\ reg.thk[i] = reg.thk_stored[i]
         /\ reg.usurf[i] = reg.usurf_stored[i]
         /\ reg.bmr[i] = reg.bmr_stored[i]
  /\ reg.mask = reg.atSetup.mask
  /\ reg.thk_stored = reg.atSetup.thk
  /\ reg.usurf_stored = reg.atSetup.usurf
  /\ reg.bmr_stored = reg.atSetup.bmr

\* both kinds of step have been taken, next to a held cell a modelled cell
\* has changed its thickness and its basal melt rate
C15_Witness ==
  /\ reg.steps = MaxRegSteps
  /\ reg.last.op = "enthalpyAndDrainageStep"
  /\ \E i \in Cells : i < NCells /\
       /\ reg.mask[i] /\ ~reg.mask[i + 1]
       /\ reg.thk[i + 1] # reg.thk_stored[i + 1]
       /\ reg.bmr[i + 1] # reg.bmr_stored[i + 1]

\* the last step was a mass-continuity step with zero surface and basal mass
\* balance and zero flux through the boundary of the domain
ZeroBalanceStep ==
  /\ reg.last.op = "massContExplicitStep"
  /\ reg.last.smb = 0
  /\ reg.last.edge = 0
  /\ \A i \in Cells : reg.last.bmr0[i] = 0

\* every interior face carries the same flux out of one cell and into the
\* other
FluxesMatch ==
  \A i \in Cells : i < NCells => reg.last.out[i].E = -reg.last.out[i + 1].W

\* no flux passes between a held and a modelled cell
NoFluxFromHeld ==
  \A i \in Cells :
    (i < NCells /\ reg.mask[i] # reg.mask[i + 1]) => reg.last.out[i].E = 0

----------------------------------------------------------------------------
(* PolyThermalGlenPBLDIce: the flow law that takes an enthalpy.  Its       *)
(* config member is a pointer: NULL after construction; init_physics of    *)
(* the model replaces the flow law of the model by the one the factory     *)
(* creates for the type 'pbld' and binds it if it is of this class.        *)

MaxStress == 2     \* stresses 1..MaxStress handed to flow

MaxK == 3          \* kbelowH in 0..MaxK; the columns have MaxK + 1 levels

\* a NCConfigVariable pointer: NULL, or the address of a configuration
NULL == [null |-> TRUE, target |-> PismConfig]

AddressOf(cfg) == [null |-> FALSE, target |-> cfg]

\* the outcome of a call of flow: whether getAbsTemp was called, and the
\* homologous temperature T whose softness the call returns (times
\* stress^(n-1), of ThermoGlenIce)
FlowResult(res, converted) ==
  [outcome |-> res.outcome, err |-> res.err, val |-> res.val,
   converted |-> converted]

\* flow without the test of the config pointer: the conversion reads through
\* the pointer whatever it holds
flow_unchecked(ptr, stress, enth, pressure) ==
  LET temp == getAbsTemp(ptr.target, enth, pressure)
  IN  IF temp.outcome = "end"
        THEN FlowResult(temp, TRUE)
        ELSE FlowResult(Return(Add(temp.val, Mul(ptr.target.beta_CC, pressure))),
                        TRUE)

flow(ptr, stress, enth, pressure) ==
  IF ptr.null
    THEN FlowResult(PetscEnd("flow: config ptr is NULL"), FALSE)
    ELSE LET temp == getAbsTemp(ptr.target, enth, pressure)
         IN  IF temp.outcome = "end"
               THEN FlowResult(temp, TRUE)
               ELSE FlowResult(Return(Add(temp.val,
                                          Mul(ptr.target.beta_CC, pressure))),
                               TRUE)

\* the weight of an interior level of the trapezoid rule
InteriorWeight_firstSpacing(dz, dzNEXT) == dz

InteriorWeight(dz, dzNEXT) == Mul(Rat(1, 2), Add(dz, dzNEXT))

\* beta_CC_grad of ThermoGlenIce, in K per unit of height
beta_CC_grad == Rat(1, 10)

\* hardnessParameter of ThermoGlenIce: a monotone function of the
\* homologous temperature
hardnessParameter(T) == Sub(Whole(16), T)

ColumnLevels == 0..MaxK

\* the level heights handed to effectiveViscosityColumn: equal and growing
\* spacings
ColumnGrids ==
  {[k \in ColumnLevels |-> Whole(k)],
   [k \in ColumnLevels |-> Whole((k * (k + 1)) \div 2)]}

\* the temperature columns T1, T2
ColumnTemps ==
  {[k \in ColumnLevels |-> Whole(2)], [k \in ColumnLevels |-> Whole(MaxK + 2 - k)]}

\* the values of pow(schoofReg + alpha, (1-n)/(2n))
Regularizations == {One, Rat(1, 2)}

\* nothing integrated yet: B = 0, no weight applied, nothing read
NoColumn ==
  [kbelowH |-> -1, zlevels |-> [k \in ColumnLevels |-> Zero], H |-> Zero,
   T1 |-> [k \in ColumnLevels |-> Zero], T2 |-> [k \in ColumnLevels |-> Zero],
   B |-> Zero, weight |-> [k \in ColumnLevels |-> Zero],
   zread |-> {}, Tread |-> {}, val |-> Zero]

\* B += w * hardnessParameter(0.5 * (T1[m] + T2[m]) + beta_CC_grad * depth),
\* with a record of the weight and of the indices read
AddLevel(c, m, w, depth, zr) ==
  [c EXCEPT !.B = Add(@, Mul(w, hardnessParameter(
                        Add(Mul(Rat(1, 2), Add(c.T1[m], c.T2[m])),
                            Mul(beta_CC_grad, depth))))),
            !.weight[m] = w,
            !.zread = @ \cup zr,
            !.Tread = @ \cup {m}]

\* for (m = 1; m < kbelowH; m++) { ... dz = dzNEXT; } and the last level
RECURSIVE TrapezoidLoop(_, _, _)
TrapezoidLoop(c, m, dz) ==
  IF m < c.kbelowH
    THEN LET dzNEXT == Sub(c.zlevels[m + 1], c.zlevels[m])
         IN  TrapezoidLoop(AddLevel(c, m, InteriorWeight(dz, dzNEXT),
                                    Sub(c.H, c.zlevels[m]), {m, m + 1}),
                           m + 1, dzNEXT)
    ELSE AddLevel(c, c.kbelowH, Mul(Rat(1, 2), dz),
                  Sub(c.H, c.zlevels[c.kbelowH]), {c.kbelowH})

effectiveViscosityColumn(H, kbelowH, z, T1, T2, nu) ==
  LET c0 == [NoColumn EXCEPT !.kbelowH = kbelowH, !.zlevels = z, !.H = H,
                             !.T1 = T1, !.T2 = T2]
      c  == IF kbelowH > 0
              THEN LET dz == Sub(z[1], z[0])
                   IN  TrapezoidLoop(AddLevel(c0, 0, Mul(Rat(1, 2), dz), H, {0, 1}),
                                     1, dz)
              ELSE c0
  IN  [c EXCEPT !.val = Mul(Mul(Rat(1, 2), c.B), nu)]

\* the creator registered for the type 'pbld': the class of the object it
\* makes
create_pbld == "ThermoGlenIce"

\* dynamic_cast<PolyThermalGlenPBLDIce*>(ice): the object, or NULL
dynamic_cast(type) == type = "PolyThermalGlenPBLDIce"

NoInit == [outcome |-> "none", err |-> "", base |-> 0, reg |-> 0]

\* init_physics with the results of IceModel::init_physics and of
\* iceFactory.registerType: the new flow law of the model and the outcome
init_physics(obj, base, registered, cfg) ==
  LET done(o, e) == [outcome |-> o, err |-> e, base |-> base, reg |-> registered]
  IN  IF base # 0
        THEN [obj EXCEPT !.phys = done("error", "IceModel::init_physics")]
      ELSE IF registered # 0
        THEN [obj EXCEPT !.phys = done("end", "FAILURE OF iceFactory.registerType()")]
      ELSE LET created == [obj EXCEPT !.type = create_pbld, !.config = NULL]
           IN  IF dynamic_cast(created.type)
                 THEN [created EXCEPT !.config = AddressOf(cfg),
                                      !.phys = done("ret", "")]
                 ELSE [created EXCEPT
                         !.phys = done("end", "not using PolyThermalGlenPBLDIce")]

NoFlow ==
  [stress |-> 0, enth |-> Zero, pressure |-> Zero, outcome |-> "none",
   err |-> "", val |-> Zero, converted |-> FALSE]

\* a PolyThermalGlenPBLDIce as its constructor leaves it, in a model whose
\* init_physics has not run
FlowInit ==
  /\ ice = [type |-> "PolyThermalGlenPBLDIce", config |-> NULL, call |-> NoFlow,
            col |-> NoColumn, phys |-> NoInit]
  /\ config \in Configs
  /\ ConvIdle /\ EnthIdle /\ RegIdle /\ FevorIdle /\ CdiIdle

\* the process runs: no PetscEnd() and no error return of init_physics
FlowAlive == ice.call.outcome # "end" /\ ice.phys.outcome = "none"

InitPhysics ==
  /\ FlowAlive
  /\ \E base \in {0, 1}, registered \in {0, 1} :
       ice' = init_physics(ice, base, registered, config)
  /\ UNCHANGED <<config, convVars, enthVars, reg, fevor, cdi>>

CallEffectiveViscosityColumn ==
  /\ FlowAlive
  /\ \E kbelowH \in 0..MaxK, z \in ColumnGrids, T1 \in ColumnTemps,
        T2 \in ColumnTemps, nu \in Regularizations :
       \E c \in {effectiveViscosityColumn(Add(z[kbelowH], Rat(1, 2)), kbelowH,
                                          z, T1, T2, nu)} :
         ice' = [ice EXCEPT !.col = c]
  /\ UNCHANGED <<config, convVars, enthVars, reg, fevor, cdi>>

CallFlow ==
  /\ FlowAlive
  /\ \E stress \in 1..MaxStress, p \in Pressures :
       \E enth \in Enthalpies(config, p) :
         \E res \in {flow(ice.config, stress, enth, p)} :
           ice' = [ice EXCEPT !.call =
                     [stress |-> stress, enth |-> enth, pressure |-> p,
                      outcome |-> res.outcome, err |-> res.err, val |-> res.val,
                      converted |-> res.converted]]
  /\ UNCHANGED <<config, convVars, enthVars, reg, fevor, cdi>>

FlowNext == InitPhysics \/ CallEffectiveViscosityColumn \/ CallFlow

FlowSpec == FlowInit /\ [][FlowNext]_vars

\* C17: flow called on an object whose config pointer is NULL ends the
\* process with the error about the pointer, makes no enthalpy-to-temperature
\* conversion and returns no value.
C17_NullConfig ==
  (ice.config.null /\ ice.call.outcome # "none") =>
    /\ ice.call.outcome = "end"
    /\ ice.call.err = "flow: config ptr is NULL"
    /\ ~ice.call.converted

\* flow has been called on the object as constructed, with an enthalpy of
\* cold ice that a bound object converts
C17_Witness ==
  /\ ice.config.null
  /\ ice.call.outcome = "end"
  /\ getAbsTemp(config, ice.call.enth, ice.call.pressure).outcome = "ret"

\* the spacing above level m, and the weights of the composite trapezoid
\* rule over the levels 0..K
Spacing(z, m) == Sub(z[m + 1], z[m])

TrapezoidWeight(z, K, m) ==
  IF m = 0 THEN Mul(Rat(1, 2), Spacing(z, 0))
  ELSE IF m = K THEN Mul(Rat(1, 2), Spacing(z, K - 1))
  ELSE Mul(Rat(1, 2), Add(Spacing(z, m - 1), Spacing(z, m)))

RECURSIVE SumLevels(_, _)
SumLevels(f, n) == IF n < 0 THEN Zero ELSE Add(SumLevels(f, n - 1), f[n])

\* the hardness at level m of the column of a call
HardnessAt(c, m) ==
  hardnessParameter(Add(Mul(Rat(1, 2), Add(c.T1[m], c.T2[m])),
                        Mul(beta_CC_grad, Sub(c.H, c.zlevels[m]))))

\* C23: effectiveViscosityColumn returns 0 when kbelowH = 0; for kbelowH >= 1
\* the weight it applies to the hardness at level m in 0..kbelowH is that of
\* the composite trapezoid rule (dz_0/2 at level 0, (dz_{m-1} + dz_m)/2 at an
\* interior level, dz_{kbelowH-1}/2 at level kbelowH), the weights sum to
\* zlevels[kbelowH] - zlevels[0], the result is half the weighted sum times
\* the regularization factor, and zlevels, T1 and T2 are read at indices
\* 0..kbelowH only.
C23_Trapezoid ==
  LET c == ice.col
      K == c.kbelowH
  IN  /\ K = 0 => (c.val = Zero /\ c.zread = {} /\ c.Tread = {})
      /\ K >= 1 =>
           /\ \A m \in 0..K : c.weight[m] = TrapezoidWeight(c.zlevels, K, m)
           /\ SumLevels(c.weight, K) = Sub(c.zlevels[K], c.zlevels[0])
           /\ c.B = SumLevels([m \in 0..K |->
                                Mul(TrapezoidWeight(c.zlevels, K, m),
                                    HardnessAt(c, m))], K)
           /\ \E nu \in Regularizations : c.val = Mul(Mul(Rat(1, 2), c.B), nu)
           /\ c.zread \subseteq 0..K
           /\ c.Tread \subseteq 0..K

\* a column integrated over an interior level between unequal spacings,
\* with a temperature that changes with height
C23_Witness ==
  LET c == ice.col
  IN  /\ c.kbelowH >= 2
      /\ \E m \in 1..(c.kbelowH - 1) :
           Spacing(c.zlevels, m - 1) # Spacing(c.zlevels, m)
      /\ c.T1[0] # c.T1[1]
      /\ c.zread = 0..c.kbelowH /\ c.Tread = 0..c.kbelowH

\* C24: init_physics, when the initialisation of the base class and the
\* registration of the type 'pbld' succeed, returns normally and leaves the
\* model with a PolyThermalGlenPBLDIce whose config pointer is the
\* configuration of the model.
C24_InitPhysics ==
  (ice.phys.outcome # "none" /\ ice.phys.base = 0 /\ ice.phys.reg = 0) =>
    /\ ice.phys.outcome = "ret"
    /\ ice.type = "PolyThermalGlenPBLDIce"
    /\ ice.config = AddressOf(config)

----------------------------------------------------------------------------
(* PISMFEvoR: init, update and the point query interp_field_point on a     *)
(* grid of 2 x 2 columns at x, y = -Lx, Lx with Mz levels, 1 <= Mz <=      *)
(* GridMz, at heights 0, 1, ..., Mz - 1 = Lz.                              *)

GridMz == 3        \* most vertical levels of the grid of PISMFEvoR

\* the grid the object was constructed with
Grid ==
  [Lx |-> One, Ly |-> One, Lz |-> Whole(fevor.Mz - 1), Mz |-> fevor.Mz]

\* grid.zlevels[k]
GridLevel(k) == Whole(k)

\* what a read past the end of zlevels or of a column yields
BeyondValues == {Whole(1), Whole(5)}

\* the value of a field at grid point (i, j, k)
FieldValue(i, j, k) == Whole(10 * k + i + 2 * j)

\* the coordinates a caller queries: a corner and the centre of the domain,
\* half a level up, and one unit outside
QueryXY == {Whole(-2), Zero, One}

QueryZ == {Whole(-1), Zero, Rat(1, 2), Grid.Lz, Add(Grid.Lz, One)}

InDomainXY(x, y) ==
  /\ Leq(Neg(Grid.Lx), x) /\ Leq(x, Grid.Lx)
  /\ Leq(Neg(Grid.Ly), y) /\ Leq(y, Grid.Ly)

InDomainZ(z) == Leq(Zero, z) /\ Leq(z, Grid.Lz)

\* grid.compute_interp_weights(x, y): the bilinear weights of the columns
\* (I, J), (I+1, J), (I+1, J+1), (I, J+1) with I = J = 0
compute_interp_weights(x, y) ==
  LET a == Div(Add(x, Grid.Lx), Mul(Whole(2), Grid.Lx))
      b == Div(Add(y, Grid.Ly), Mul(Whole(2), Grid.Ly))
  IN  <<Mul(Sub(One, a), Sub(One, b)), Mul(a, Sub(One, b)),
        Mul(a, b), Mul(Sub(One, a), b)>>

\* while (K + 1 < grid.Mz - 1 && grid.zlevels[K + 1] < z) K++;
RECURSIVE LevelBelow(_, _)
LevelBelow(K, z) ==
  IF K + 1 < Grid.Mz - 1 /\ Less(GridLevel(K + 1), z)
    THEN LevelBelow(K + 1, z)
    ELSE K

\* The value interp_field_point leaves in feildValue, with the columns and
\* the levels it has read.
Interpolate(x, y, z, beyond) ==
  LET K  == LevelBelow(0, z)
      zl(k) == IF k < Grid.Mz THEN GridLevel(k) ELSE beyond
      col(i, j, k) == IF k < Grid.Mz THEN FieldValue(i, j, k) ELSE beyond
      zw == Div(Sub(z, zl(K)), Sub(zl(K + 1), zl(K)))
      f(i, j) == Add(col(i, j, K), Mul(zw, Sub(col(i, j, K + 1), col(i, j, K))))
      w  == compute_interp_weights(x, y)
  IN  [outcome |-> "ret", err |-> "",
       val |-> Add(Add(Mul(w[1], f(0, 0)), Mul(w[2], f(1, 0))),
                   Add(Mul(w[3], f(1, 1)), Mul(w[4], f(0, 1)))),
       columns |-> {<<0, 0>>, <<1, 0>>, <<1, 1>>, <<0, 1>>},
       levels |-> {K, K + 1}]

\* interp_field_point: the grid refuses a point outside [-Lx, Lx] x
\* [-Ly, Ly]; nothing looks at z before the interpolation
interp_field_point(x, y, z, beyond) ==
  IF ~InDomainXY(x, y)
    THEN [outcome |-> "error", err |-> "OutOfDomainError", val |-> Zero,
          columns |-> {}, levels |-> {}]
    ELSE Interpolate(x, y, z, beyond)

\* The PISMFEvoR object: m_enthalpy, m_pressure, m_tauxz and m_tauyz are
\* pointers (TRUE: not NULL).  lastInit is the return of the last call of
\* init, call the last call with its outcome.
MaxInits == 2      \* successful calls of init are counted up to MaxInits

\* std::vector<double> stress(9, 0.0)
StressElements == 0..8

NoFevorCall ==
  [op |-> "none", x |-> Zero, y |-> Zero, z |-> Zero, outcome |-> "none",
   err |-> "", val |-> Zero, columns |-> {}, levels |-> {}, allocs |-> 0,
   P |-> Zero, txz |-> Zero, tyz |-> Zero,
   stress |-> [k \in StressElements |-> Zero], written |-> {}]

\* okInits and allocated are a history of the object: the number of calls
\* of init that returned 0, and the number of objects created for each
\* diagnostic
FevorConstructed ==
  [Mz |-> GridMz, m_enthalpy |-> FALSE, m_pressure |-> FALSE, m_tauxz |-> FALSE,
   m_tauyz |-> FALSE, lastInit |-> "none", okInits |-> 0,
   allocated |-> [m_pressure |-> 0, m_tauxz |-> 0, m_tauyz |-> 0],
   call |-> NoFevorCall]

\* the kinds of Vars handed to init: without a variable 'enthalpy', with one
\* that is no IceModelVec3, with a 3-D one
EnthalpyVars == {"absent", "vec2", "vec3"}

\* an allocation made whether the pointer is NULL or not
Count_unguarded(b) == 1

Count(b) == IF b THEN 0 ELSE 1

\* the counts of a successful init
Allocated(obj) ==
  [m_pressure |-> obj.allocated.m_pressure + Count(obj.m_pressure),
   m_tauxz    |-> obj.allocated.m_tauxz + Count(obj.m_tauxz),
   m_tauyz    |-> obj.allocated.m_tauyz + Count(obj.m_tauyz)]

CountInit(n) == IF n < MaxInits THEN n + 1 ELSE n

\* init with the allocations made before the test of m_enthalpy
init_allocatesFirst(obj, enthalpy, addFails) ==
  IF addFails
    THEN [obj EXCEPT !.lastInit = "failed",
                     !.call = [NoFevorCall EXCEPT !.op = "init", !.outcome = "error",
                                                  !.err = "vars.add failed"]]
  ELSE [obj EXCEPT
          !.m_enthalpy = (enthalpy = "vec3"),
          !.m_pressure = TRUE, !.m_tauxz = TRUE, !.m_tauyz = TRUE,
          !.lastInit = IF enthalpy = "vec3" THEN "ok" ELSE "failed",
          !.okInits = IF enthalpy = "vec3" THEN CountInit(@) ELSE @,
          !.allocated = Allocated(obj),
          !.call = [NoFevorCall EXCEPT
                      !.op = "init",
                      !.outcome = IF enthalpy = "vec3" THEN "ret" ELSE "error",
                      !.err = IF enthalpy = "vec3" THEN ""
                              ELSE "enthalpy field is not available",
                      !.allocs = Count(obj.m_pressure) + Count(obj.m_tauxz)
                                 + Count(obj.m_tauyz)]]

\* PISMFEvoR::init(vars): vars.add may fail; m_enthalpy is assigned from
\* vars.get("enthalpy"); the three diagnostics are allocated when they are
\* NULL
init(obj, enthalpy, addFails) ==
  IF addFails
    THEN [obj EXCEPT !.lastInit = "failed",
                     !.call = [NoFevorCall EXCEPT !.op = "init", !.outcome = "error",
                                                  !.err = "vars.add failed"]]
  ELSE IF enthalpy # "vec3"
    THEN [obj EXCEPT !.m_enthalpy = FALSE,
                     !.lastInit = "failed",
                     !.call = [NoFevorCall EXCEPT
                                 !.op = "init", !.outcome = "error",
                                 !.err = "enthalpy field is not available"]]
  ELSE [obj EXCEPT
          !.m_enthalpy = TRUE,
          !.m_pressure = TRUE, !.m_tauxz = TRUE, !.m_tauyz = TRUE,
          !.lastInit = "ok",
          !.okInits = CountInit(@),
          !.allocated = Allocated(obj),
          !.call = [NoFevorCall EXCEPT
                      !.op = "init", !.outcome = "ret",
                      !.allocs = Count(obj.m_pressure) + Count(obj.m_tauxz)
                                 + Count(obj.m_tauyz)]]

\* the value interp_field_point gives at the first particle for one of the
\* diagnostics; the three fields differ by a constant
ParticleValue(field) ==
  Add(Interpolate(Neg(Grid.Lx), Zero, Zero, One).val,
      Whole(IF field = "pressure" THEN 0 ELSE IF field = "tauxz" THEN 100 ELSE 200))

\* stress[1] = stress[5] = stress[9] = P; stress[3] = stress[7] = txz;
\* stress[6] = stress[8] = tyz: the elements the statements name
StressWritten == {1, 5, 9} \cup {3, 7} \cup {6, 8}

\* the vector after the three statements (the write of element 9 falls
\* outside it)
StressVector(P, txz, tyz) ==
  [k \in StressElements |->
     IF k \in {1, 5, 9} THEN P
     ELSE IF k \in {3, 7} THEN txz
     ELSE IF k \in {6, 8} THEN tyz
     ELSE Zero]

\* PISMFEvoR::update: the assertions on the diagnostics, the interpolation
\* of the diagnostics at the particles (all inside the domain), the write
\* of stress[9] past the end of a vector of 9 elements (overrun: the call
\* goes on or the process crashes), and the interpolation of m_enthalpy.
\* The record of the first particle (x = -Lx, y = 0, z = 0) is kept: P, txz
\* and tyz as interpolated from the three diagnostics and the stress vector
\* built from them.
update(obj, overrun) ==
  LET result(outcome, err) ==
        [obj EXCEPT !.call = [NoFevorCall EXCEPT !.op = "update",
                                                 !.outcome = outcome, !.err = err]]
      built(outcome, err) ==
        LET P == ParticleValue("pressure")
            txz == ParticleValue("tauxz")
            tyz == ParticleValue("tauyz")
        IN  [obj EXCEPT !.call = [NoFevorCall EXCEPT
                                    !.op = "update", !.outcome = outcome,
                                    !.err = err, !.P = P, !.txz = txz, !.tyz = tyz,
                                    !.stress = StressVector(P, txz, tyz),
                                    !.written = StressWritten]]
  IN  IF ~obj.m_pressure THEN result("abort", "assert(m_pressure != NULL)")
      ELSE IF ~obj.m_tauxz THEN result("abort", "assert(m_tauxz != NULL)")
      ELSE IF ~obj.m_tauyz THEN result("abort", "assert(m_tauyz != NULL)")
      ELSE IF overrun = "crash" THEN built("abort", "stress[9] out of range")
      ELSE IF ~obj.m_enthalpy THEN built("abort", "m_enthalpy is NULL")
      ELSE built("ret", "")

FevorAlive == fevor.call.outcome # "abort"

FevorInit ==
  /\ fevor \in {[FevorConstructed EXCEPT !.Mz = mz] : mz \in 1..GridMz}
  /\ config = ColumnConfig
  /\ ConvIdle /\ EnthIdle /\ RegIdle /\ FlowIdle /\ CdiIdle

CallInit ==
  /\ FevorAlive
  /\ \E enthalpy \in EnthalpyVars, addFails \in BOOLEAN :
       fevor' = init(fevor, enthalpy, addFails)
  /\ UNCHANGED <<config, convVars, enthVars, reg, ice, cdi>>

CallUpdate ==
  /\ FevorAlive
  /\ \E overrun \in {"none", "crash"} : fevor' = update(fevor, overrun)
  /\ UNCHANGED <<config, convVars, enthVars, reg, ice, cdi>>

CallInterpFieldPoint ==
  /\ FevorAlive
  /\ \E x \in QueryXY, y \in QueryXY, z \in QueryZ,
        beyond \in (IF Grid.Mz < 2 THEN BeyondValues ELSE {Zero}) :
       \E res \in {interp_field_point(x, y, z, beyond)} :
         fevor' = [fevor EXCEPT !.call =
                     [NoFevorCall EXCEPT
                        !.op = "interp_field_point", !.x = x, !.y = y, !.z = z,
                        !.outcome = res.outcome, !.err = res.err, !.val = res.val,
                        !.columns = res.columns, !.levels = res.levels]]
  /\ UNCHANGED <<config, convVars, enthVars, reg, ice, cdi>>

FevorNext == CallInit \/ CallUpdate \/ CallInterpFieldPoint

FevorSpec == FevorInit /\ [][FevorNext]_vars

\* C18: interp_field_point for a point outside [-Lx, Lx] x [-Ly, Ly] x
\* [0, Lz] fails with an out-of-domain error: it returns no value and reads
\* no column.
C18_OutOfDomain ==
  (fevor.call.op = "interp_field_point"
     /\ ~(InDomainXY(fevor.call.x, fevor.call.y) /\ InDomainZ(fevor.call.z))) =>
    /\ fevor.call.outcome = "error"
    /\ fevor.call.err = "OutOfDomainError"
    /\ fevor.call.columns = {}

\* the lower of the two levels a call of interp_field_point has read
LowerLevel == CHOOSE k \in fevor.call.levels : k + 1 \in fevor.call.levels

\* C25: for every number of levels Mz >= 1 and every z, the levels K and
\* K + 1 that interp_field_point reads lie within 0..Mz - 1; and for z in
\* [0, Lz] they bracket z: zlevels[K] <= z <= zlevels[K + 1].
C25_LevelsInRange ==
  (fevor.call.op = "interp_field_point" /\ fevor.call.levels # {}) =>
    /\ fevor.call.levels \subseteq 0..(Grid.Mz - 1)
    /\ InDomainZ(fevor.call.z) =>
         /\ Leq(GridLevel(LowerLevel), fevor.call.z)
         /\ Leq(fevor.call.z, GridLevel(LowerLevel + 1))

SymmetricTensor(P, txz, tyz) ==
  [k \in StressElements |->
     IF k \in {0, 4, 8} THEN P
     ELSE IF k \in {2, 6} THEN txz
     ELSE IF k \in {5, 7} THEN tyz
     ELSE Zero]

\* C26: the stress vector update builds for a particle is the row-major
\* symmetric tensor of P, txz and tyz (P at elements 0, 4, 8, txz at 2 and 6,
\* tyz at 5 and 7, 0 elsewhere), and every element written has an index in
\* 0..8.
C26_StressTensor ==
  (fevor.call.op = "update" /\ fevor.call.written # {}) =>
    /\ fevor.call.stress
         = SymmetricTensor(fevor.call.P, fevor.call.txz, fevor.call.tyz)
    /\ fevor.call.written \subseteq StressElements

AssertionMessages ==
  {"assert(m_pressure != NULL)", "assert(m_tauxz != NULL)",
   "assert(m_tauyz != NULL)"}

\* C27: over any sequence of calls of init and update on one object, the
\* three diagnostics are NULL until an init has returned success, an update
\* that runs after a successful init passes its three assertions, and no
\* diagnostic is allocated more than once.
C27_Diagnostics ==
  /\ fevor.okInits = 0 =>
       (~fevor.m_pressure /\ ~fevor.m_tauxz /\ ~fevor.m_tauyz)
  /\ (fevor.call.op = "update" /\ fevor.okInits > 0) =>
       fevor.call.err \notin AssertionMessages
  /\ fevor.allocated.m_pressure <= 1
  /\ fevor.allocated.m_tauxz <= 1
  /\ fevor.allocated.m_tauyz <= 1

\* init has succeeded twice and failed since, and update has passed its
\* assertions
C27_Witness ==
  /\ fevor.okInits >= 2
  /\ fevor.lastInit = "failed"
  /\ fevor.call.op = "update"
  /\ fevor.call.written # {}
  /\ fevor.allocated = [m_pressure |-> 1, m_tauxz |-> 1, m_tauyz |-> 1]

----------------------------------------------------------------------------
(* CDI: the file object of the CDI-PIO backend.  Its members m_varsID,     *)
(* m_dimsAxis and m_zID are std::map objects, modelled as functions on the *)
(* names they hold.  lib is the state of the CDI library as far as the     *)
(* object drives it: the number of objects of each kind that were created  *)
(* and the number of variables of the variable list.                       *)

MaxVars == 2       \* variables defined in the variable list

\* a std::map without elements
EmptyMap == [n \in {} |-> 0]

\* m.count(k) > 0
Has(m, k) == k \in DOMAIN m

\* m[k] = v
Put(m, k, v) == [n \in DOMAIN m \cup {k} |-> IF n = k THEN v ELSE m[n]]

\* the map after the expression m[k]: operator[] inserts a value-initialised
\* element for a key the map does not hold
Subscript(m, k, zero) == IF Has(m, k) THEN m ELSE Put(m, k, zero)

\* the map after m[k] for every k of keys
SubscriptAll(m, keys, zero) ==
  [n \in DOMAIN m \cup keys |-> IF Has(m, n) THEN m[n] ELSE zero]

\* the value of a member the constructor leaves uninitialised
Indeterminate == -2

\* the handles the library returns: one per kind, and one per name for the
\* generic z axes
Handle ==
  [vlist |-> 10, sgrid |-> 11, zs |-> 20, taxis |-> 30, grid |-> 50,
   zaxis |-> [n \in {"z", "zb"} |-> IF n = "z" THEN 41 ELSE 42], file |-> 7]

\* AxisType() is the enumerator with the value 0, which IO_Flags.hh
\* declares: the first axis, or a kind that is none of the four
ZeroAxes == {"X_AXIS", "UNKNOWN_AXIS"}

NoLibrary ==
  [vlists |-> 0, sgrids |-> 0, zs |-> 0, taxes |-> 0, grids |-> 0,
   zaxes |-> [n \in {"z", "zb"} |-> 0], nvars |-> 0]

\* pre is a history: the members as they were when the call was made
NoCdiCall ==
  [op |-> "none", name |-> "", outcome |-> "none", err |-> "",
   answer |-> FALSE, count |-> 0, written |-> FALSE, pre |-> <<>>]

CdiConstructed ==
  [st |-> "constructed", zeroAxis |-> "X_AXIS",
   m_file_id |-> Indeterminate, m_vlistID |-> Indeterminate,
   m_tID |-> Indeterminate, m_zsID |-> Indeterminate,
   m_gridID |-> Indeterminate,
   m_varsID |-> EmptyMap, m_dimsAxis |-> EmptyMap, m_zID |-> EmptyMap,
   lib |-> NoLibrary, call |-> NoCdiCall]

\* the members of the object
Members(c) ==
  [m_file_id |-> c.m_file_id, m_vlistID |-> c.m_vlistID, m_tID |-> c.m_tID,
   m_zsID |-> c.m_zsID, m_gridID |-> c.m_gridID, m_varsID |-> c.m_varsID,
   m_dimsAxis |-> c.m_dimsAxis, m_zID |-> c.m_zID]

\* a call that returns, throws a RuntimeError, or ends in the library (a
\* call of the library with the handle -1 of a grid that was not created)
Called(c, op, name, outcome, err, answer, count) ==
  [op |-> op, name |-> name, outcome |-> outcome, err |-> err,
   answer |-> answer, count |-> count, written |-> FALSE, pre |-> Members(c)]

Returned(c0, c, op, name, answer, count) ==
  [c EXCEPT !.call = Called(c0, op, name, "ret", "", answer, count)]

Thrown(c0, c, op, name, err) ==
  [c EXCEPT !.call = Called(c0, op, name, "throw", err, FALSE, 0)]

LibraryAbort(c0, c, op, name) ==
  [c EXCEPT !.st = "aborted",
            !.call = Called(c0, op, name, "abort", "invalid grid handle", FALSE, 0)]


FileTypes ==
  {"CDI_FILETYPE_NC", "CDI_FILETYPE_NC2", "CDI_FILETYPE_NC4", "CDI_FILETYPE_NC4C"}

ReadingNotSupported == "file reading not supported with CDI-PIO in PISM"

create_impl(c, filetype) ==
  IF filetype \notin FileTypes
    THEN Thrown(c, c, "create_impl", filetype, "invalid CDI-PIO file type")
    ELSE Returned(c, [c EXCEPT !.st = "created", !.m_file_id = Handle.file,
                               !.m_tID = -1, !.m_zsID = -1, !.m_gridID = -1,
                               !.m_vlistID = -1],
                  "create_impl", filetype, FALSE, 0)

\* open_impl that opens the stream in every mode
open_impl_reads(c, mode, dimsa) ==
  Returned(c, [c EXCEPT !.st = "opened", !.m_file_id = Handle.file,
                        !.m_vlistID = Handle.vlist, !.m_tID = Handle.taxis,
                        !.m_gridID = Handle.grid, !.m_dimsAxis = dimsa],
           "open_impl", mode, FALSE, 0)

\* open_impl on a stream the library holds, with a variable list without
\* variables and z axes, a time axis and a grid
open_impl(c, mode, dimsa) ==
  IF mode = "PISM_READONLY"
    THEN Thrown(c, c, "open_impl", mode, ReadingNotSupported)
    ELSE Returned(c, [c EXCEPT !.st = "opened", !.m_file_id = Handle.file,
                               !.m_vlistID = Handle.vlist, !.m_tID = Handle.taxis,
                               !.m_zID = Subscript(@, "zs", 0),
                               !.m_zsID = Subscript(c.m_zID, "zs", 0)["zs"],
                               !.m_gridID = Handle.grid, !.m_dimsAxis = dimsa],
                  "open_impl", mode, FALSE, 0)

\* def_zs with the surface axis created on every call
def_zs_always(c) ==
  [c EXCEPT !.m_zsID = Handle.zs, !.m_zID = Put(@, "zs", Handle.zs),
            !.lib.zs = @ + 1]

def_vlist(c) ==
  IF c.m_vlistID = -1
    THEN [c EXCEPT !.m_vlistID = Handle.vlist, !.lib.vlists = @ + 1,
                   !.lib.sgrids = @ + 1]
    ELSE c

def_zs(c) ==
  IF c.m_zsID = -1
    THEN [c EXCEPT !.m_zsID = Handle.zs, !.m_zID = Put(@, "zs", Handle.zs),
                   !.lib.zs = @ + 1]
    ELSE c

\* the grid for 1-D data of the default case (m_gridgID) is used nowhere else
\* and is not kept
def_dim_impl(c, name, dim) ==
  LET c1 == def_zs(def_vlist(c))
      done(x) == Returned(c, [x EXCEPT !.m_dimsAxis = Put(@, name, dim)],
                          "def_dim_impl", name, FALSE, 0)
  IN  CASE dim \in {"X_AXIS", "Y_AXIS"} ->
             IF c1.m_gridID = -1
               THEN LibraryAbort(c, c1, "def_dim_impl", name)
               ELSE done(c1)
        [] dim = "Z_AXIS" ->
             IF ~Has(c1.m_zID, name)
               THEN done([c1 EXCEPT !.m_zID = Put(@, name, Handle.zaxis[name]),
                                    !.lib.zaxes[name] = @ + 1])
               ELSE done(c1)
        [] dim = "T_AXIS" ->
             IF c1.m_tID = -1
               THEN done([c1 EXCEPT !.m_tID = Handle.taxis, !.lib.taxes = @ + 1])
               ELSE done(c1)
        [] OTHER -> done(c1)

create_grid_impl(c) ==
  Returned(c, IF c.m_gridID = -1
                THEN [c EXCEPT !.m_gridID = Handle.grid, !.lib.grids = @ + 1]
                ELSE c,
           "create_grid_impl", "", FALSE, 0)

\* vlistDefVar and m_varsID[name] = varID
DefineVar(c, name) ==
  [c EXCEPT !.m_varsID = Put(@, name, c.lib.nvars), !.lib.nvars = @ + 1]

def_var_impl(c, name, dims) ==
  IF Has(c.m_dimsAxis, name)
    THEN Returned(c, c, "def_var_impl", name, FALSE, 0)
    ELSE LET c1   == def_vlist(c)
             tdim == IF \E i \in DOMAIN dims : dims[i] = "time" THEN 1 ELSE 0
         IN  IF Len(dims) - tdim <= 1
               THEN Returned(c, DefineVar(def_zs(c1), name),
                             "def_var_impl", name, FALSE, 0)
               ELSE LET c2 == [c1 EXCEPT !.m_dimsAxis =
                                 SubscriptAll(@, {dims[i] : i \in DOMAIN dims},
                                              c.zeroAxis)]
                    IN  IF c2.m_gridID = -1
                          THEN LibraryAbort(c, c2, "def_var_impl", name)
                          ELSE Returned(c, DefineVar(c2, name),
                                        "def_var_impl", name, FALSE, 0)

inq_dimid_impl(c, name) ==
  Returned(c, c, "inq_dimid_impl", name, Has(c.m_dimsAxis, name), 0)

inq_dimlen_impl(c, name) ==
  LET c1  == [c EXCEPT !.m_dimsAxis = Subscript(@, name, c.zeroAxis)]
      dim == c1.m_dimsAxis[name]
  IN  CASE dim \in {"X_AXIS", "Y_AXIS"} ->
             IF c1.m_gridID = -1
               THEN LibraryAbort(c, c1, "inq_dimlen_impl", name)
               ELSE Returned(c, c1, "inq_dimlen_impl", name, FALSE, 3)
        [] dim = "Z_AXIS" ->
             Returned(c, [c1 EXCEPT !.m_zID = Subscript(@, name, 0)],
                      "inq_dimlen_impl", name, FALSE, 3)
        [] dim = "T_AXIS" ->
             Returned(c, c1, "inq_dimlen_impl", name, FALSE, 2)
        [] OTHER -> Thrown(c, c1, "inq_dimlen_impl", name, "invalid dimension")

inq_nvars_impl(c) ==
  Returned(c, c, "inq_nvars_impl", "", FALSE, Cardinality(DOMAIN c.m_varsID))

var_id(c, name) ==
  IF name = "PISM_GLOBAL"
    THEN Returned(c, c, "var_id", name, FALSE, -1)
    ELSE Returned(c, [c EXCEPT !.m_varsID = Subscript(@, name, 0)],
                  "var_id", name, FALSE, Subscript(c.m_varsID, name, 0)[name])

\* both look the variable up with var_id and ask the library
inq_varnatts_impl(c, name) ==
  [var_id(c, name) EXCEPT !.call.op = "inq_varnatts_impl", !.call.count = 0]

inq_vardimid_impl(c, name) ==
  [var_id(c, name) EXCEPT !.call.op = "inq_vardimid_impl", !.call.count = 0]

inq_varid_impl(c, name) ==
  Returned(c, c, "inq_varid_impl", name, Has(c.m_varsID, name), 0)

get_vara_double_impl(c) ==
  Thrown(c, c, "get_vara_double_impl", "", ReadingNotSupported)

get_varm_double_impl(c) ==
  Thrown(c, c, "get_varm_double_impl", "", ReadingNotSupported)


\* the calls the actions make
DimDefs ==
  {<<"z", "Z_AXIS">>, <<"zb", "Z_AXIS">>, <<"time", "T_AXIS">>,
   <<"x", "X_AXIS">>, <<"nv", "UNKNOWN_AXIS">>}

\* a variable on the grid, a scalar, and a variable named as a dimension
VarDefs ==
  {<<"v", <<"time", "z", "x">>>>, <<"s", <<>>>>, <<"z", <<"time", "z", "x">>>>}

InquiryOps ==
  {"inq_dimid_impl", "inq_dimlen_impl", "inq_varid_impl", "inq_varnatts_impl",
   "inq_vardimid_impl", "inq_nvars_impl", "var_id"}

ReadOps == {"get_vara_double_impl", "get_varm_double_impl"}

\* the inquiry op on name
Inquiry(c, op, name) ==
  CASE op = "inq_dimid_impl"    -> inq_dimid_impl(c, name)
    [] op = "inq_dimlen_impl"   -> inq_dimlen_impl(c, name)
    [] op = "inq_varid_impl"    -> inq_varid_impl(c, name)
    [] op = "inq_varnatts_impl" -> inq_varnatts_impl(c, name)
    [] op = "inq_vardimid_impl" -> inq_vardimid_impl(c, name)
    [] op = "inq_nvars_impl"    -> inq_nvars_impl(c)
    [] OTHER                    -> var_id(c, name)

InquiryNames(op) ==
  CASE op \in {"inq_dimid_impl", "inq_dimlen_impl"} -> {"z", "q"}
    [] op = "inq_nvars_impl" -> {""}
    [] OTHER -> {"v", "q", "PISM_GLOBAL"}

CdiInit ==
  /\ config = ColumnConfig
  /\ ConvIdle /\ EnthIdle /\ RegIdle /\ FlowIdle /\ FevorIdle
  /\ cdi \in {[CdiConstructed EXCEPT !.zeroAxis = a] : a \in ZeroAxes}

CdiCreate ==
  /\ cdi.st = "constructed"
  /\ \E filetype \in {"CDI_FILETYPE_NC4", "netcdf3"} : cdi' = create_impl(cdi, filetype)
  /\ UNCHANGED <<config, convVars, enthVars, reg, ice, fevor>>

CdiOpen ==
  /\ cdi.st = "constructed"
  /\ \E mode \in {"PISM_READONLY", "PISM_READWRITE"} : cdi' = open_impl(cdi, mode, EmptyMap)
  /\ UNCHANGED <<config, convVars, enthVars, reg, ice, fevor>>

CdiCreateGrid ==
  /\ cdi.st = "created"
  /\ cdi' = create_grid_impl(cdi)
  /\ UNCHANGED <<config, convVars, enthVars, reg, ice, fevor>>

CdiDefDim ==
  /\ cdi.st = "created"
  /\ \E d \in DimDefs : cdi' = def_dim_impl(cdi, d[1], d[2])
  /\ UNCHANGED <<config, convVars, enthVars, reg, ice, fevor>>

CdiDefVar ==
  /\ cdi.st = "created"
  /\ cdi.lib.nvars < MaxVars
  /\ \E v \in VarDefs : cdi' = def_var_impl(cdi, v[1], v[2])
  /\ UNCHANGED <<config, convVars, enthVars, reg, ice, fevor>>

CdiInquire ==
  /\ cdi.st = "created"
  /\ \E op \in InquiryOps : \E name \in InquiryNames(op) :
       cdi' = Inquiry(cdi, op, name)
  /\ UNCHANGED <<config, convVars, enthVars, reg, ice, fevor>>

CdiRead ==
  /\ cdi.st # "aborted"
  /\ \E op \in ReadOps :
       cdi' = IF op = "get_vara_double_impl" THEN get_vara_double_impl(cdi)
                                             ELSE get_varm_double_impl(cdi)
  /\ UNCHANGED <<config, convVars, enthVars, reg, ice, fevor>>

CdiNext ==
  \/ CdiCreate
  \/ CdiOpen
  \/ CdiCreateGrid
  \/ CdiDefDim
  \/ CdiDefVar
  \/ CdiInquire
  \/ CdiRead

CdiSpec == CdiInit /\ [][CdiNext]_vars


\* ---- claims on CDI ----

\* a call that threw and left every member as it was
ThrewUnchanged(c) ==
  /\ c.call.outcome = "throw"
  /\ c.call.err = ReadingNotSupported
  /\ Members(c) = c.call.pre
  /\ ~c.call.written

\* C28: CDI never reads: open_impl with the mode PISM_READONLY throws and
\* leaves the file id, variable-list id, time-axis id, grid id, variable map
\* and dimension map as they were, and get_vara_double_impl and
\* get_varm_double_impl throw on every call and write nothing
C28_NeverReads ==
  /\ (cdi.call.op = "open_impl" /\ cdi.call.name = "PISM_READONLY")
       => (ThrewUnchanged(cdi) /\ cdi.st = "constructed")
  /\ cdi.call.op \in ReadOps => ThrewUnchanged(cdi)

C28_Witness ==
  /\ cdi.call.op = "open_impl"
  /\ cdi.call.name = "PISM_READONLY"
  /\ cdi.call.outcome = "throw"
  /\ cdi.m_file_id = Indeterminate


\* def_dim_impl(name, ...) has returned
DefDimReturned(c) == c.call.op = "def_dim_impl" /\ c.call.outcome = "ret"

\* C29: after create_impl, whatever def_dim_impl and def_var_impl calls are
\* made, the variable list and its dummy scalar grid are created at most
\* once, the surface axis zs at most once, the time axis at most once and one
\* z axis for each Z-dimension name; defining a Z or time dimension again
\* keeps the axis id recorded before, and after def_dim_impl(name, ...) the
\* answer of inq_dimid_impl(name) is true
C29_CreatedOnce ==
  cdi.st \in {"created", "aborted"} =>
    /\ cdi.lib.vlists <= 1
    /\ cdi.lib.sgrids = cdi.lib.vlists
    /\ cdi.lib.zs <= 1
    /\ cdi.lib.taxes <= 1
    /\ \A n \in DOMAIN cdi.lib.zaxes :
         /\ cdi.lib.zaxes[n] <= 1
         /\ (Has(cdi.m_dimsAxis, n) /\ cdi.m_dimsAxis[n] = "Z_AXIS")
              => (cdi.lib.zaxes[n] = 1 /\ cdi.m_zID[n] = Handle.zaxis[n])
    /\ DefDimReturned(cdi) =>
         /\ inq_dimid_impl(cdi, cdi.call.name).call.answer
         /\ Has(cdi.call.pre.m_zID, cdi.call.name)
              => cdi.m_zID[cdi.call.name] = cdi.call.pre.m_zID[cdi.call.name]
         /\ cdi.call.pre.m_tID # -1 => cdi.m_tID = cdi.call.pre.m_tID

C29_Witness ==
  /\ DefDimReturned(cdi)
  /\ cdi.call.name = "z"
  /\ Has(cdi.call.pre.m_zID, "z")
  /\ cdi.lib.zaxes["z"] = 1
  /\ cdi.lib.zaxes["zb"] = 1
  /\ cdi.lib.taxes = 1
  /\ cdi.lib.nvars = MaxVars


\* the answers of inq_dimid_impl and inq_varid_impl for every name in use
\* and the count of inq_nvars_impl, for the members mem
Definitions(mem) ==
  [dims  |-> {n \in {"z", "zb", "time", "x", "nv", "q"} : Has(mem.m_dimsAxis, n)},
   vars  |-> {n \in {"v", "s", "z", "q"} : Has(mem.m_varsID, n)},
   nvars |-> Cardinality(DOMAIN mem.m_varsID)]

\* C30: an inquiry (inq_dimid_impl, inq_dimlen_impl, inq_varid_impl,
\* inq_varnatts_impl, inq_vardimid_impl, inq_nvars_impl, var_id) leaves the
\* sets of defined dimensions and variables as they were, also when the name
\* was never defined, and inq_dimlen_impl for a name that is no defined
\* dimension ends with the invalid-dimension error
C30_InquiriesFrame ==
  cdi.call.op \in InquiryOps =>
    /\ Definitions(Members(cdi)) = Definitions(cdi.call.pre)
    /\ (cdi.call.op = "inq_dimlen_impl"
        /\ ~Has(cdi.call.pre.m_dimsAxis, cdi.call.name))
         => (cdi.call.outcome = "throw" /\ cdi.call.err = "invalid dimension")

============================================================================
